---- MODULE Spec2Model ----
(***************************************************************************)
(* A model of the OpenAthena caching proxy (open_athena/opens3_file_proxy) *)
(* and of the catalog loader that drives it (open_athena/catalog).          *)
(*                                                                         *)
(* Strings are sequences of atoms.  An atom is a short piece of text that  *)
(* the code never looks inside ("csv", "a", "b1") or a single character    *)
(* the code does look for ("/", "*", ".", "'").  Listing names, keys,      *)
(* URLs and queries are all such sequences, so split, strip, startswith    *)
(* and endswith are computed as the code computes them.                    *)
(***************************************************************************)
EXTENDS Integers, Sequences, FiniteSets, TLC

VARIABLES
    now,             \* the clock read by time.time()
    cache_metadata,  \* self.cache_metadata["files"]: relative path -> entry
    metadata_file,   \* the document cache_metadata.json on disk
    disk,            \* the files under the cache directory: full path -> bytes
    dirs,            \* the directories that exist under (and including) the cache directory
    remote,          \* the object store: <<bucket, key>> -> bytes
    listing,         \* the object store's listing: bucket -> sequence of names
    downloaded,      \* history: relative path -> bytes of its last complete download
    lastOk,          \* history: <<bucket, key>> -> the latest fetch of it that returned a path
    views,           \* the engine's views: table name -> what the view is
    last,            \* history: the call that made the latest step and what it returned
    threads,         \* the calls of download_file in progress: thread -> where it is
    connection,      \* the DuckDBManager's connection: its handle, and whether it was closed
    proxy_instance,  \* the module's _proxy_instance: << >> (None) or <<i>>, the i-th proxy made
    instances        \* the proxies constructed so far: i -> the index (cache_metadata) it holds

vars == <<now, cache_metadata, metadata_file, disk, dirs, remote, listing,
          downloaded, lastOk, views, last, threads, connection,
          proxy_instance, instances>>

----------------------------------------------------------------------------
(* Bounds of the model.                                                    *)

MaxTime == 3
cache_expiration == 2

----------------------------------------------------------------------------
(* String helpers, as Python computes them.                                *)

StartsWith(s, p) == Len(p) <= Len(s) /\ SubSeq(s, 1, Len(p)) = p

EndsWith(s, p) == Len(p) <= Len(s) /\ SubSeq(s, Len(s) - Len(p) + 1, Len(s)) = p

Contains(s, a) == \E i \in 1..Len(s) : s[i] = a

\* the index of the first occurrence of the atom a in s, 0 when there is none
IndexOf(s, a) ==
    IF Contains(s, a) THEN CHOOSE i \in 1..Len(s) : s[i] = a /\ \A j \in 1..(i-1) : s[j] # a
    ELSE 0

\* the index of the first occurrence of the sequence p in s, 0 when there is none
FindSeq(s, p) ==
    LET hits == {i \in 1..(Len(s) - Len(p) + 1) : SubSeq(s, i, i + Len(p) - 1) = p}
    IN IF hits = {} THEN 0 ELSE CHOOSE i \in hits : \A j \in hits : i <= j

RECURSIVE SplitSeq(_, _)
\* s.split(p): the pieces of s between the occurrences of the sequence p
SplitSeq(s, p) ==
    LET i == FindSeq(s, p)
    IN IF i = 0 THEN <<s>>
       ELSE <<SubSeq(s, 1, i - 1)>> \o SplitSeq(SubSeq(s, i + Len(p), Len(s)), p)

Split(s, a) == SplitSeq(s, <<a>>)

RECURSIVE Join(_, _)
\* sep.join(parts)
Join(parts, sep) ==
    IF Len(parts) = 0 THEN <<>>
    ELSE IF Len(parts) = 1 THEN parts[1]
    ELSE parts[1] \o sep \o Join(Tail(parts), sep)

RECURSIVE LStrip(_, _)
LStrip(s, a) == IF Len(s) > 0 /\ s[1] = a THEN LStrip(Tail(s), a) ELSE s

RECURSIVE RStrip(_, _)
RStrip(s, a) ==
    IF Len(s) > 0 /\ s[Len(s)] = a THEN RStrip(SubSeq(s, 1, Len(s) - 1), a) ELSE s

Strip(s, a) == RStrip(LStrip(s, a), a)

LowerAtom(a) ==
    CASE a = "CSV" -> "csv"
      [] a = "A" -> "a"
      [] OTHER -> a

Lower(s) == [i \in 1..Len(s) |-> LowerAtom(s[i])]

\* os.path.join(a, b) on a POSIX system
OsPathJoin(a, b) ==
    IF Len(b) > 0 /\ b[1] = "/" THEN b
    ELSE IF Len(a) = 0 \/ a[Len(a)] = "/" THEN a \o b
    ELSE a \o <<"/">> \o b

\* a function with one more (or one changed) mapping, as d[k] = v on a dict
Put(f, k, v) == [x \in DOMAIN f \cup {k} |-> IF x = k THEN v ELSE f[x]]

\* a function with the key k removed, as del d[k]
Drop(f, k) == [x \in DOMAIN f \ {k} |-> f[x]]

----------------------------------------------------------------------------
(* The proxy: cache index, cache files, downloads.                         *)

CACHE_DIR == <<"cache">>

NoPath == [ok |-> FALSE, path |-> <<>>]
Path(p) == [ok |-> TRUE, path |-> p]

\* the state a handler of the proxy reads and writes
ProxyState == [meta |-> cache_metadata, file |-> metadata_file, disk |-> disk,
               dirs |-> dirs, dl |-> downloaded, reqs |-> <<>>]

\* the world outside the proxy during one call: the clock, the object store and
\* the one fault (if any) that the call runs into
Env(fault) == [now |-> now, remote |-> remote, listing |-> listing, fault |-> fault]

NoFault == [kind |-> "none", key |-> <<>>]

\* _save_cache_metadata that writes nothing
save_cache_metadata_skipped(s, e) == s

\* _save_cache_metadata: the document is rewritten in full from the index.  What
\* open() or json.dump raise is logged and swallowed (lines 91-92): when open()
\* raises the document stays as it was, when the dump fails after open() has
\* emptied the document it is left unreadable, which _load_cache_metadata reads
\* as the empty index (as it reads a document that is not there)
save_cache_metadata(s, e) ==
    IF e.fault.kind = "save_open" THEN s
    ELSE IF e.fault.kind = "save_dump" THEN [s EXCEPT !.file = << >>]
    ELSE [s EXCEPT !.file = s.meta]

\* _load_cache_metadata: the index is what the document holds
load_cache_metadata(s) == [s EXCEPT !.meta = s.file]

cache_relative_path(bucket, object_key) == OsPathJoin(bucket, object_key)

cache_full_path(bucket, object_key) ==
    OsPathJoin(CACHE_DIR, cache_relative_path(bucket, object_key))

\* is_cached without the test that the file is still on disk
is_cached_by_index_only(s, t, rel, full) ==
    /\ rel \in DOMAIN s.meta
    /\ t - s.meta[rel].last_access < cache_expiration

\* the test of lines 204-206: the entry exists, the file exists, the entry is fresh
is_cached(s, t, rel, full) ==
    /\ rel \in DOMAIN s.meta
    /\ full \in DOMAIN s.disk
    /\ t - s.meta[rel].last_access < cache_expiration

\* the test of line 237: the key has a leading csv/ or parquet/ folder
has_format_folder(object_key) ==
    /\ Contains(object_key, "/")
    /\ Split(object_key, "/")[1] \in {<<"csv">>, <<"parquet">>}

\* line 239 with the first segment stripped instead of the last one taken
alt_key_without_first_segment(object_key) ==
    Join(Tail(Split(object_key, "/")), <<"/">>)

\* line 239: the bare filename
alt_key(object_key) ==
    LET parts == Split(object_key, "/") IN parts[Len(parts)]

\* os.path.dirname(path)
Dirname(path) ==
    LET cut == {i \in 1..Len(path) : path[i] = "/"}
    IN IF cut = {} THEN <<>>
       ELSE SubSeq(path, 1, (CHOOSE i \in cut : \A j \in cut : j <= i) - 1)

\* a request sent to the object store and how it was answered: "200", "fail" (any
\* other status) or "error" (the transport raised before a status came back)
Get(bucket, object_key, status) ==
    [kind |-> "GET", bucket |-> bucket, key |-> object_key, status |-> status]
List(bucket, status) ==
    [kind |-> "LIST", bucket |-> bucket, key |-> <<>>, status |-> status]

\* os.makedirs(path, exist_ok=True): the folder and the folders above it
Makedirs(path) ==
    {path} \cup {SubSeq(path, 1, i - 1) : i \in {j \in 1..Len(path) : path[j] = "/"}}

\* the bytes an interrupted write leaves in the file: open(path, 'wb') has
\* truncated it and the chunks before the failing one were written (the objects
\* of this model are one chunk long, so the file is left empty)
Truncated(bytes) == SubSeq(bytes, 1, Len(bytes) - 1)

\* line 214 with the URL built from the file name alone
object_url_of_basename(bucket, object_key) ==
    LET parts == Split(object_key, "/") IN <<bucket, parts[Len(parts)]>>

\* line 214: the object the GET asks the store for
object_url(bucket, object_key) == <<bucket, object_key>>

\* store_download without the index entry
store_download_without_entry(s, e, bucket, object_key, bytes) ==
    [s EXCEPT !.disk = Put(s.disk, cache_full_path(bucket, object_key), bytes),
              !.dl = Put(s.dl, cache_relative_path(bucket, object_key), bytes)]

\* lines 219-232: write the body, record the entry, save the index
store_download(s, e, bucket, object_key, bytes) ==
    LET rel  == cache_relative_path(bucket, object_key)
        full == cache_full_path(bucket, object_key)
        s1 == [s EXCEPT !.disk = Put(s.disk, full, bytes),
                        !.meta = Put(s.meta, rel,
                                     [last_access |-> e.now, size |-> Len(bytes),
                                      source_url |-> <<bucket, object_key>>]),
                        !.dl = Put(s.dl, rel, bytes)]
    IN save_cache_metadata(s1, e)

\* touch with the epoch written for the time of the hit
touch_at_epoch(s, e, rel) ==
    save_cache_metadata(
        [s EXCEPT !.meta = Put(s.meta, rel, [s.meta[rel] EXCEPT !.last_access = 0])], e)

\* lines 207-211: a cache hit touches the entry and saves the index
touch(s, e, rel) ==
    save_cache_metadata(
        [s EXCEPT !.meta = Put(s.meta, rel, [s.meta[rel] EXCEPT !.last_access = e.now])], e)

\* sent with the entry of the object taken out of the index
sent_forgetting_entry(s, bucket, object_key, status) ==
    [s EXCEPT !.reqs = Append(s.reqs, Get(bucket, object_key, status)),
              !.meta = [rel \in DOMAIN s.meta \ {cache_relative_path(bucket, object_key)}
                            |-> s.meta[rel]]]

\* lines 214-216: the GET for the object is sent, and answered with status;
\* nothing of the cache changes by that
sent(s, bucket, object_key, status) ==
    [s EXCEPT !.reqs = Append(s.reqs, Get(bucket, object_key, status))]

RECURSIVE download_file(_, _, _, _)
\* download_file(bucket, object_key): [s: the state after, ret: the path or None,
\* exc: whether the call raised]
download_file(s, e, bucket, object_key) ==
    LET rel  == cache_relative_path(bucket, object_key)
        full == cache_full_path(bucket, object_key)
        faulty == e.fault.key = object_key
        made == [s EXCEPT !.dirs = s.dirs \cup Makedirs(Dirname(full))]
    IN
    IF Contains(object_key, "*") THEN [s |-> s, ret |-> NoPath, exc |-> FALSE]
    ELSE IF e.fault.kind = "mkdir" /\ faulty /\ Dirname(full) \notin s.dirs
         THEN [s |-> s, ret |-> NoPath, exc |-> TRUE]          \* os.makedirs raises
    ELSE IF is_cached(made, e.now, rel, full)
         THEN [s |-> touch(made, e, rel), ret |-> Path(full), exc |-> FALSE]
    ELSE IF e.fault.kind = "connect" /\ faulty
         THEN \* requests.get raises
              [s |-> sent(made, bucket, object_key, "error"), ret |-> NoPath, exc |-> FALSE]
    ELSE IF object_url(bucket, object_key) \in DOMAIN e.remote
         THEN \* status 200
              IF full \in made.dirs \/ full[Len(full)] = "/"
              THEN \* open() of a directory
                   [s |-> sent(made, bucket, object_key, "200"), ret |-> NoPath, exc |-> FALSE]
              ELSE IF e.fault.kind = "body" /\ faulty
              THEN [s |-> [sent(made, bucket, object_key, "200") EXCEPT !.disk =
                              Put(s.disk, full,
                                  Truncated(e.remote[object_url(bucket, object_key)]))],
                    ret |-> NoPath, exc |-> FALSE]             \* iter_content raises
              ELSE [s |-> store_download(sent(made, bucket, object_key, "200"), e,
                                         bucket, object_key,
                                         e.remote[object_url(bucket, object_key)]),
                    ret |-> Path(full), exc |-> FALSE]
    ELSE \* any other status
         IF has_format_folder(object_key)
         THEN LET r == download_file(sent(made, bucket, object_key, "fail"), e,
                                     bucket, alt_key(object_key))
              IN [s |-> r.s, ret |-> IF r.exc THEN NoPath ELSE r.ret, exc |-> FALSE]
         ELSE [s |-> sent(made, bucket, object_key, "fail"), ret |-> NoPath, exc |-> FALSE]

\* line 100 with >= for >
is_expired_at_ttl(t, entry) == t - entry.last_access >= cache_expiration

\* line 100: the entry is expired
is_expired(t, entry) == t - entry.last_access > cache_expiration

\* clean_expired_cache with the try around the loop: a file that os.remove
\* fails on ends the sweep (here before anything was removed)
clean_expired_cache_stopping_at_failure(s, e, stuck) ==
    LET expired == {p \in DOMAIN s.meta : is_expired(e.now, s.meta[p])}
        failing == {p \in expired : OsPathJoin(CACHE_DIR, p) \in (DOMAIN s.disk \cap stuck)}
        removed == IF failing = {} THEN expired ELSE {}
        gone    == {OsPathJoin(CACHE_DIR, p) : p \in removed}
        s1 == [s EXCEPT !.meta = [p \in DOMAIN s.meta \ removed |-> s.meta[p]],
                        !.disk = [f \in DOMAIN s.disk \ gone |-> s.disk[f]]]
    IN IF removed # {} THEN save_cache_metadata(s1, e) ELSE s1

\* clean_expired_cache: stuck is the set of files os.remove fails on
clean_expired_cache(s, e, stuck) ==
    LET expired == {p \in DOMAIN s.meta : is_expired(e.now, s.meta[p])}
        removed == {p \in expired : OsPathJoin(CACHE_DIR, p) \notin (DOMAIN s.disk \cap stuck)}
        gone    == {OsPathJoin(CACHE_DIR, p) : p \in removed}
        s1 == [s EXCEPT !.meta = [p \in DOMAIN s.meta \ removed |-> s.meta[p]],
                        !.disk = [f \in DOMAIN s.disk \ gone |-> s.disk[f]]]
    IN IF removed # {} THEN save_cache_metadata(s1, e) ELSE s1

----------------------------------------------------------------------------
(* Listing and the resolution of a URL to a local path.                    *)

\* list_objects with the request sent once more when it fails
list_objects_asking_twice(s, e, bucket) ==
    IF e.fault.kind = "list"
    THEN [s |-> [s EXCEPT !.reqs = s.reqs \o <<List(bucket, "error"), List(bucket, "error")>>],
          objs |-> <<>>]
    ELSE IF bucket \in DOMAIN e.listing
    THEN [s |-> [s EXCEPT !.reqs = Append(s.reqs, List(bucket, "200"))],
          objs |-> e.listing[bucket]]
    ELSE [s |-> [s EXCEPT !.reqs = Append(s.reqs, List(bucket, "fail"))], objs |-> <<>>]

\* list_objects(bucket): one GET of the listing; the names of the descriptors,
\* in the order of the response, or nothing on another status or an exception
list_objects(s, e, bucket) ==
    IF e.fault.kind = "list"
    THEN [s |-> [s EXCEPT !.reqs = Append(s.reqs, List(bucket, "error"))], objs |-> <<>>]
    ELSE IF bucket \in DOMAIN e.listing
    THEN [s |-> [s EXCEPT !.reqs = Append(s.reqs, List(bucket, "200"))],
          objs |-> e.listing[bucket]]
    ELSE [s |-> [s EXCEPT !.reqs = Append(s.reqs, List(bucket, "fail"))], objs |-> <<>>]

\* urlparse(url): the scheme, the network location and the path
urlparse(url) ==
    LET rest == Tail(url)
        i == IndexOf(rest, "/")
    IN [scheme |-> url[1],
        netloc |-> IF i = 0 THEN rest ELSE SubSeq(rest, 1, i - 1),
        path   |-> IF i = 0 THEN <<>> ELSE SubSeq(rest, i, Len(rest))]

\* lines 269-278 with the legacy form only
http_bucket_key_legacy_only(path) ==
    LET path_parts == Split(Strip(path, "/"), "/")
    IN [bucket |-> path_parts[1],
        key |-> Join(SubSeq(path_parts, 2, Len(path_parts)), <<"/">>)]

\* lines 269-278: bucket and key of an http(s) URL
http_bucket_key(path) ==
    LET path_parts == Split(Strip(path, "/"), "/")
    IN IF Len(path_parts) >= 4 /\ path_parts[1] = <<"buckets">> /\ path_parts[3] = <<"objects">>
       THEN [bucket |-> path_parts[2],
             key |-> Join(SubSeq(path_parts, 4, Len(path_parts)), <<"/">>)]
       ELSE [bucket |-> path_parts[1],
             key |-> Join(SubSeq(path_parts, 2, Len(path_parts)), <<"/">>)]

\* lines 283-290: prefix and extension of a wildcard key, http(s) form
\* (an extension of <<>> is the code's None)
http_pattern(object_key) ==
    LET prefix == Split(object_key, "*")[1]
        parts == Split(RStrip(prefix, "/"), "/")
        folder == parts[Len(parts)]
    IN [prefix |-> prefix,
        extension |-> IF Contains(prefix, "/") /\ folder \in {<<"csv">>, <<"parquet">>}
                      THEN folder ELSE <<>>]

\* lines 306-328: whether a listed name is taken, http(s) form
http_matches(name, prefix, extension) ==
    IF extension # <<>> /\ EndsWith(Lower(name), <<".">> \o extension) THEN TRUE
    ELSE IF prefix # <<>>
         THEN \/ prefix[Len(prefix)] = "/" /\ StartsWith(name, prefix)
              \/ StartsWith(name, prefix)
              \/ prefix \in {<<"csv">>, <<"parquet">>}
         ELSE TRUE

\* lines 353-374: prefix and extension of a wildcard key, s3 form
s3_pattern(object_key) ==
    IF StartsWith(object_key, <<"*", ".">>)
    THEN [prefix |-> <<>>, extension |-> SubSeq(object_key, 3, Len(object_key))]
    ELSE IF FindSeq(object_key, <<"*", ".">>) # 0
    THEN LET parts == SplitSeq(object_key, <<"*", ".">>)
         IN [prefix |-> parts[1], extension |-> parts[2]]
    ELSE LET prefix == Split(object_key, "*")[1]
         IN [prefix |-> prefix,
             extension |-> IF prefix \in {<<"csv", "/">>, <<"parquet", "/">>}
                           THEN RStrip(prefix, "/") ELSE <<>>]

\* lines 398-417: whether a listed name is taken, s3 form
s3_matches(name, prefix, extension, object_key) ==
    \/ /\ extension # <<>>
       /\ EndsWith(Lower(name), <<".">> \o Lower(extension))
       /\ (prefix = <<>> \/ StartsWith(name, prefix))
    \/ prefix # <<>> /\ StartsWith(name, prefix)
    \/ prefix = <<>> /\ extension = <<>> /\ object_key = <<"*">>

NoResult(s) == [s |-> s, ret |-> NoPath, exc |-> FALSE, sel |-> <<>>]

\* lines 292-340 and 378-429: list the bucket, take the names that match, fetch
\* the first one; whatever is raised in there is caught
resolve_wildcard(s, e, bucket, scheme, pat, object_key) ==
    LET l == list_objects(s, e, bucket)
        matching_objects ==
            SelectSeq(l.objs, LAMBDA name :
                IF scheme = "s3://"
                THEN s3_matches(name, pat.prefix, pat.extension, object_key)
                ELSE http_matches(name, pat.prefix, pat.extension))
    IN IF l.objs = <<>> \/ matching_objects = <<>> THEN NoResult(l.s)
       ELSE LET r == download_file(l.s, e, bucket, matching_objects[1])
            IN [s |-> r.s, ret |-> IF r.exc THEN NoPath ELSE r.ret, exc |-> FALSE,
                sel |-> matching_objects[1]]

\* convert_url_to_local_path(url): [s: the state after, ret: the path or None,
\* exc: whether the call raised, sel: the listed name it took for a wildcard]
convert_url_to_local_path(s, e, url) ==
    LET parsed_url == urlparse(url) IN
    IF parsed_url.scheme \in {"http://", "https://"}
    THEN LET bk == http_bucket_key(parsed_url.path)
             pat == http_pattern(bk.key)
         IN IF Contains(bk.key, "*")
            THEN resolve_wildcard(s, e, bk.bucket, parsed_url.scheme, pat, bk.key)
            ELSE download_file(s, e, bk.bucket, bk.key) @@ [sel |-> <<>>]
    ELSE IF parsed_url.scheme = "s3://"
    THEN LET bucket == parsed_url.netloc
             object_key == Strip(parsed_url.path, "/")
             pat == s3_pattern(object_key)
         IN IF Contains(object_key, "*")
            THEN resolve_wildcard(s, e, bucket, parsed_url.scheme, pat, object_key)
            ELSE download_file(s, e, bucket, object_key) @@ [sel |-> <<>>]
    ELSE NoResult(s)

----------------------------------------------------------------------------
(* The answers to the listing requests and what the proxy makes of them.   *)
(* An entry of a listing is a JSON object with some of the fields name and *)
(* key, or a JSON string.  A body is a JSON array of entries or a JSON     *)
(* object: keys are its field names in order, items the array under its    *)
(* first field.                                                            *)

DictEntry(fields, name, key) ==
    [is_dict |-> TRUE, fields |-> fields, name |-> name, key |-> key, str |-> <<>>]
StrEntry(str) ==
    [is_dict |-> FALSE, fields |-> {}, name |-> <<>>, key |-> <<>>, str |-> str]

ListBody(items) == [type |-> "list", keys |-> <<>>, items |-> items]
WrapperBody(field, items) == [type |-> "dict", keys |-> <<field>>, items |-> items]
MappingBody(names) == [type |-> "dict", keys |-> names, items |-> <<>>]

\* lines 145-149: the objects of the answer; a JSON object without the field
\* 'objects' is iterated as it is, which gives its keys
objects_of(result) ==
    IF result.type = "dict" /\ \E i \in 1..Len(result.keys) : result.keys[i] = <<"objects">>
    THEN result.items
    ELSE IF result.type = "dict"
    THEN [i \in 1..Len(result.keys) |-> StrEntry(result.keys[i])]
    ELSE result.items

\* lines 156-166 without the copy of key into name
standardized_without_name(obj) ==
    IF obj.is_dict THEN obj
    ELSE DictEntry({"name", "key"}, obj.str, obj.str)

\* lines 156-166: one entry, standardized
standardized(obj) ==
    IF obj.is_dict
    THEN IF "name" \notin obj.fields /\ "key" \in obj.fields
         THEN [obj EXCEPT !.fields = obj.fields \cup {"name"}, !.name = obj.key]
         ELSE obj
    ELSE DictEntry({"name", "key"}, obj.str, obj.str)

\* lines 141-177: list_objects on the answer to its request; response.status is
\* "200", another status ("fail") or no answer at all ("error")
list_objects_answered(response) ==
    IF response.status = "200"
    THEN [ret |-> [i \in 1..Len(objects_of(response.body)) |->
                       standardized(objects_of(response.body)[i])],
          exc |-> FALSE]
    ELSE [ret |-> <<>>, exc |-> FALSE]

\* lines 121-130: list_buckets on the answer to its request; nothing is caught,
\* and bucket["name"] needs every entry to be an object with a name
list_buckets_answered(response) ==
    IF response.status = "error" THEN [ret |-> <<>>, exc |-> TRUE]
    ELSE IF response.status # "200" THEN [ret |-> <<>>, exc |-> FALSE]
    ELSE IF response.body.type = "dict" /\ response.body.keys # <<>>
    THEN [ret |-> <<>>, exc |-> TRUE]
    ELSE IF \E i \in 1..Len(response.body.items) :
               ~response.body.items[i].is_dict \/ "name" \notin response.body.items[i].fields
    THEN [ret |-> <<>>, exc |-> TRUE]
    ELSE [ret |-> [i \in 1..Len(response.body.items) |-> response.body.items[i].name],
          exc |-> FALSE]

----------------------------------------------------------------------------
(* The rewriting of the URL literals of a query.                           *)

SQ == "'"
DQ == "\""

\* line 450: the markers, in the order the code tries them
url_markers == <<<<SQ, "http://">>, <<SQ, "s3://">>, <<DQ, "http://">>, <<DQ, "s3://">>>>

RECURSIVE ReplaceAtom(_, _, _)
\* s.replace(a, by)
ReplaceAtom(s, a, by) ==
    IF s = <<>> THEN <<>>
    ELSE (IF s[1] = a THEN by ELSE <<s[1]>>) \o ReplaceAtom(Tail(s), a, by)

\* substituted with every literal wrapped in single quotes
substituted_in_single_quotes(quote_char, local_path, rest) ==
    <<SQ>> \o ReplaceAtom(local_path, SQ, <<SQ, SQ>>) \o <<SQ>> \o rest

\* lines 469-475: the quoted local path, followed by the text after the literal
substituted(quote_char, local_path, rest) ==
    IF quote_char = SQ
    THEN <<quote_char>> \o ReplaceAtom(local_path, SQ, <<SQ, SQ>>) \o <<quote_char>> \o rest
    ELSE <<quote_char>> \o local_path \o <<quote_char>> \o rest

\* lines 481 and 483: what is put back for a literal that is not substituted
kept_original(marker, part) == Tail(marker) \o part

\* lines 461-483: one piece after a marker; r is what convert_url_to_local_path
\* returns for the URL of the piece (it is called only when the piece has a
\* closing quote)
rewrite_part(acc, marker, part, url_end, r) ==
    IF url_end = 0 THEN [acc EXCEPT !.out = acc.out \o kept_original(marker, part)]
    ELSE IF r.exc THEN [acc EXCEPT !.s = r.s, !.exc = TRUE]
    ELSE IF r.ret.ok
    THEN [s |-> r.s, exc |-> FALSE, n |-> acc.n + 1,
          out |-> acc.out \o substituted(marker[1], r.ret.path,
                                          SubSeq(part, url_end + 1, Len(part)))]
    ELSE [acc EXCEPT !.s = r.s, !.out = acc.out \o kept_original(marker, part)]

\* line 464: the URL of a piece, without the quotes
url_of(marker, part) == Tail(marker) \o SubSeq(part, 1, IndexOf(part, marker[1]) - 1)

RECURSIVE rewrite_parts(_, _, _, _, _)
\* lines 458-483: the loop over the pieces after the first one; acc carries the
\* state, the new pieces joined so far and the number of literals substituted
rewrite_parts(acc, e, marker, parts, i) ==
    IF i > Len(parts) \/ acc.exc THEN acc
    ELSE rewrite_parts(
             rewrite_part(acc, marker, parts[i], IndexOf(parts[i], marker[1]),
                          convert_url_to_local_path(acc.s, e, url_of(marker, parts[i]))),
             e, marker, parts, i + 1)

\* lines 453-485: one marker, on the query the markers before it left
rewrite_marker(acc, e, marker, parts) ==
    IF Len(parts) = 1 THEN acc
    ELSE rewrite_parts([acc EXCEPT !.out = parts[1]], e, marker, parts, 2)

RECURSIVE rewrite_markers(_, _, _)
\* lines 452-485: the loop over the markers
rewrite_markers(acc, e, m) ==
    IF m > Len(url_markers) \/ acc.exc THEN acc
    ELSE rewrite_markers(
             rewrite_marker(acc, e, url_markers[m], SplitSeq(acc.out, url_markers[m])),
             e, m + 1)

\* update_catalog_query that asks for the listing of a bucket before anything else
update_catalog_query_listing_first(s, e, query) ==
    rewrite_markers([s |-> list_objects(s, e, <<"b1">>).s, out |-> query,
                     exc |-> FALSE, n |-> 0], e, 1)

\* update_catalog_query(query): [s: the state after, out: the query returned,
\* exc: whether the call raised, n: how many literals were substituted]
update_catalog_query(s, e, query) ==
    rewrite_markers([s |-> s, out |-> query, exc |-> FALSE, n |-> 0], e, 1)

----------------------------------------------------------------------------
(* The catalog (catalog.py): one view per entry.                           *)

\* the name the engine reads in CREATE OR REPLACE VIEW <text> AS ...: a bare
\* identifier is one word, anything else has to stand in double quotes
ParseName(text) ==
    IF Len(text) = 1 /\ text[1] \notin {"-", DQ}
    THEN [ok |-> TRUE, name |-> text]
    ELSE IF Len(text) >= 3 /\ text[1] = DQ /\ text[Len(text)] = DQ
    THEN [ok |-> TRUE, name |-> SubSeq(text, 2, Len(text) - 1)]
    ELSE [ok |-> FALSE, name |-> <<>>]

\* con.sql("CREATE OR REPLACE VIEW {name_text} AS {body}"): the view is created
\* or replaced, or the engine raises
con_sql(vs, name_text, kind, body_ok) ==
    LET parsed == ParseName(name_text)
    IN IF parsed.ok /\ body_ok
       THEN [views |-> Put(vs, parsed.name, kind), exc |-> FALSE]
       ELSE [views |-> vs, exc |-> TRUE]

\* the engine binds the query of a view when it creates it: a query in which a
\* remote URL is left is rejected
engine_accepts(query) ==
    \A i \in 1..Len(query) : query[i] \notin {"http://", "https://", "s3://"}

\* lines 66 and 91
safe_tbl_of(tbl) == IF Contains(tbl, "-") THEN <<DQ>> \o tbl \o <<DQ>> ELSE tbl

Unbound == [bound |-> FALSE, text |-> <<>>]

Bound(tbl) == [bound |-> TRUE, text |-> safe_tbl_of(tbl)]

\* lines 78 and 146: the fallback view, made under whatever safe_tbl holds; c is
\* what con.sql does with it
fallback_result(acc, c) ==
    IF ~acc.safe_tbl.bound \/ c.exc
    THEN [acc EXCEPT !.exc = TRUE]
    ELSE [acc EXCEPT !.views = c.views, !.log = Append(acc.log, "error")]

\* lines 74-78 and 142-147: the except block
fallback_view(acc) ==
    fallback_result(acc, con_sql(acc.views, acc.safe_tbl.text, "fallback", TRUE))

\* lines 70-78 and 126-147: the view of the entry if con.sql made it (c), the
\* fallback view if it raised
create_view(acc, c) ==
    IF c.exc THEN fallback_view(acc)
    ELSE [acc EXCEPT !.views = c.views, !.log = Append(acc.log, "created")]

\* lines 45-56: no try around this con.sql, the name is written as it is
dummy_result(acc, c) ==
    IF c.exc THEN [acc EXCEPT !.exc = TRUE]
    ELSE [acc EXCEPT !.views = c.views, !.log = Append(acc.log, "created")]

load_dummy(acc, tbl) == dummy_result(acc, con_sql(acc.views, tbl, "dummy", TRUE))

\* lines 63-78: u is what update_catalog_query returned or raised
load_processed(acc, tbl, u) ==
    IF u.exc THEN fallback_view([acc EXCEPT !.s = u.s])
    ELSE create_view([acc EXCEPT !.s = u.s, !.safe_tbl = Bound(tbl)],
                     con_sql(acc.views, safe_tbl_of(tbl), "query", engine_accepts(u.out)))

\* lines 59-79
load_query(acc, e, tbl, query) ==
    load_processed(acc, tbl, update_catalog_query(acc.s, e, query))

\* lines 118-136: d is what download_file returned or raised
load_downloaded(acc, meta, d) ==
    IF d.exc \/ ~d.ret.ok THEN fallback_view([acc EXCEPT !.s = d.s])
    ELSE create_view([acc EXCEPT !.s = d.s],
                     con_sql(acc.views, acc.safe_tbl.text, "file",
                             LowerAtom(meta.format) \in {"parquet", "csv"}))

\* lines 98-140
load_matching(acc, e, meta, objects, matching_objects) ==
    IF objects = <<>> \/ matching_objects = <<>> THEN fallback_view(acc)
    ELSE load_downloaded(acc, meta, download_file(acc.s, e, meta.bucket, matching_objects[1]))

\* lines 96-112: l is what list_objects returned
load_listed(acc, e, meta, l) ==
    load_matching([acc EXCEPT !.s = l.s], e, meta, l.objs,
                  SelectSeq(l.objs, LAMBDA name :
                      /\ EndsWith(name, <<".", meta.format>>)
                      /\ (meta.prefix = <<>> \/ StartsWith(name, meta.prefix))))

\* lines 82-148
load_table(acc, e, tbl, meta) ==
    load_listed([acc EXCEPT !.safe_tbl = Bound(tbl)], e, meta,
                list_objects(acc.s, e, meta.bucket))

\* lines 43-148: one entry
load_entry(acc, e, tbl, meta) ==
    IF meta.type = "dummy" THEN load_dummy(acc, tbl)
    ELSE IF meta.has_query THEN load_query(acc, e, tbl, meta.query)
    ELSE load_table(acc, e, tbl, meta)

RECURSIVE load_entries(_, _, _, _)
\* lines 43-148: the loop over the entries; an exception ends it
load_entries(acc, e, cfg, i) ==
    IF i > Len(cfg) \/ acc.exc THEN acc
    ELSE load_entries(load_entry(acc, e, cfg[i].tbl, cfg[i].meta), e, cfg, i + 1)

\* initialize_proxy(): the sweep of the cache
initialize_proxy(s, e) == clean_expired_cache(s, e, {})

\* the catalog file at cat_path: it is there or not, and holds the entries cfg
\* (none when the document is empty)
CatalogFile(cfg) == [found |-> TRUE, cfg |-> cfg]
MissingFile == [found |-> FALSE, cfg |-> <<>>]

\* lines 30-34 with a built-in entry for the file that is not there
catalog_of_default_when_missing(doc) ==
    IF ~doc.found
    THEN <<[tbl |-> <<"t1">>,
            meta |-> [type |-> "dummy", has_query |-> FALSE, query |-> <<>>,
                      bucket |-> <<>>, prefix |-> <<>>, format |-> "parquet"]]>>
    ELSE doc.cfg

\* lines 30-34: what is read from the file, nothing when it is not there
catalog_of(doc) == IF ~doc.found THEN <<>> ELSE doc.cfg

\* lines 35-148: cfg is what was read from the file
load_config(s, vs, e, cfg) ==
    IF cfg = <<>> THEN [s |-> s, views |-> vs, safe_tbl |-> Unbound, exc |-> FALSE, log |-> <<>>]
    ELSE load_entries([s |-> initialize_proxy(s, e), views |-> vs, safe_tbl |-> Unbound,
                       exc |-> FALSE, log |-> <<>>], e, cfg, 1)

\* load_catalog(con, cat_path) for the catalog file doc
load_catalog(s, vs, e, doc) == load_config(s, vs, e, catalog_of(doc))

----------------------------------------------------------------------------
(* The cache specification: fetches, sweeps, the clock and the world.      *)

B1 == <<"b1">>
A_CSV == <<"a", ".", "csv">>
CSV_A_CSV == <<"csv", "/", "a", ".", "csv">>

Buckets == {B1}
FetchKeys == {A_CSV, CSV_A_CSV}
Contents == {<<1>>, <<2>>}

\* the faults a call for object_key can run into: none, or one at a request it makes
Faults(object_key) ==
    {NoFault} \cup [kind : {"connect", "body", "mkdir"}, key : {object_key, alt_key(object_key)}]

\* a thread that is not inside download_file
Idle == [pc |-> "idle", key |-> <<>>, got |-> <<>>, snap |-> << >>]

Threads == {1, 2}

NoThreads == [t \in Threads |-> Idle]

\* DuckDBManager.__init__: the manager holds the connection it has opened
OpenConnection == [handle |-> TRUE, closed |-> FALSE]

NoCall == [op |-> "none", bucket |-> <<>>, arg |-> <<>>, ret |-> NoPath,
           reqs |-> <<>>, exc |-> FALSE, stuck |-> {}, removed |-> 0, sel |-> <<>>,
           out |-> <<>>, n |-> 0, log |-> <<>>, fault |-> NoFault, found |-> TRUE,
           pre |-> [entry |-> FALSE, file |-> FALSE]]

Init ==
    /\ now = 0
    /\ cache_metadata = << >>
    /\ metadata_file = << >>
    /\ disk = << >>
    /\ dirs = {CACHE_DIR}
    /\ remote \in {r \in UNION {[refs -> Contents] : refs \in SUBSET (Buckets \X FetchKeys)} :
                     \A ref \in DOMAIN r : r[ref] = <<1>>}
    /\ listing = [b \in Buckets |-> <<>>]
    /\ downloaded = << >>
    /\ lastOk = << >>
    /\ views = << >>
    /\ last = NoCall
    /\ threads = NoThreads
    /\ connection = OpenConnection
    /\ proxy_instance = << >>
    /\ instances = << >>

Install(s) ==
    /\ cache_metadata' = s.meta
    /\ metadata_file' = s.file
    /\ disk' = s.disk
    /\ dirs' = s.dirs
    /\ downloaded' = s.dl

Tick ==
    /\ now < MaxTime
    /\ now' = now + 1
    /\ last' = [NoCall EXCEPT !.op = "tick"]
    /\ UNCHANGED <<proxy_instance, instances, connection, threads, cache_metadata, metadata_file, disk, dirs, remote, listing, downloaded,
                   lastOk, views>>

\* download_file(bucket, object_key) called under fault; noted is what the
\* history keeps of the fault
DownloadFileUnder(bucket, object_key, fault, noted) ==
        LET r == download_file(ProxyState, Env(fault), bucket, object_key)
        IN /\ Install(r.s)
           /\ lastOk' = IF r.ret.ok
                        THEN Put(lastOk, <<bucket, object_key>>,
                                 [time |-> now, path |-> r.ret.path])
                        ELSE lastOk
           /\ last' = [NoCall EXCEPT !.op = "download_file", !.bucket = bucket,
                                     !.arg = object_key, !.ret = r.ret,
                                     !.reqs = r.s.reqs, !.exc = r.exc, !.fault = noted,
                                     !.pre = [entry |-> cache_relative_path(bucket, object_key)
                                                          \in DOMAIN cache_metadata,
                                              file |-> cache_full_path(bucket, object_key)
                                                          \in DOMAIN disk]]
           /\ UNCHANGED <<proxy_instance, instances, connection, threads, now, remote, listing, views>>

\* download_file(bucket, object_key) called, under any fault
DownloadFileCall(bucket, object_key) ==
    \E fault \in Faults(object_key) : DownloadFileUnder(bucket, object_key, fault, NoFault)

\* one call of download_file(bucket, object_key)
CallDownloadFile ==
    \E bucket \in Buckets, object_key \in FetchKeys : DownloadFileCall(bucket, object_key)

\* one call of clean_expired_cache()
CallCleanExpiredCache ==
    \E stuck \in {{}} \cup {{cache_full_path(b, k)} : b \in Buckets, k \in FetchKeys} :
        LET s == clean_expired_cache(ProxyState, Env(NoFault), stuck)
        IN /\ Install(s)
           /\ last' = [NoCall EXCEPT !.op = "clean_expired_cache", !.stuck = stuck,
                                     !.removed = Cardinality(DOMAIN cache_metadata)
                                                   - Cardinality(DOMAIN s.meta)]
           /\ UNCHANGED <<proxy_instance, instances, connection, threads, now, remote, listing, lastOk, views>>

\* somebody else removes a file of the cache directory
ExternalDelete ==
    \E f \in DOMAIN disk :
        /\ disk' = [g \in DOMAIN disk \ {f} |-> disk[g]]
        /\ last' = [NoCall EXCEPT !.op = "external_delete"]
        /\ UNCHANGED <<proxy_instance, instances, connection, threads, now, cache_metadata, metadata_file, dirs, remote, listing,
                       downloaded, lastOk, views>>

\* the object store gets a new version of an object
RemotePut ==
    \E ref \in Buckets \X {A_CSV}, bytes \in Contents :
        /\ remote' = Put(remote, ref, bytes)
        /\ remote' # remote
        /\ last' = [NoCall EXCEPT !.op = "remote_put"]
        /\ UNCHANGED <<proxy_instance, instances, connection, threads, now, cache_metadata, metadata_file, disk, dirs, listing,
                       downloaded, lastOk, views>>

Next ==
    \/ Tick
    \/ CallDownloadFile
    \/ CallCleanExpiredCache
    \/ ExternalDelete
    \/ RemotePut

Spec == Init /\ [][Next]_vars

----------------------------------------------------------------------------
(* The retry specification: fetches of keys with and without folders, at   *)
(* one clock value.                                                        *)

CSV_CSV_A_CSV == <<"csv", "/", "csv", "/", "a", ".", "csv">>
D_CSV_A_CSV == <<"d", "/", "csv", "/", "a", ".", "csv">>

RetryKeys == {A_CSV, CSV_A_CSV, CSV_CSV_A_CSV, D_CSV_A_CSV}

CallDownloadFileRetry ==
    \E bucket \in Buckets, object_key \in RetryKeys : DownloadFileCall(bucket, object_key)

NextRetry ==
    \/ CallDownloadFileRetry
    \/ ExternalDelete

SpecRetry == Init /\ [][NextRetry]_vars

----------------------------------------------------------------------------
(* The resolution specification: URLs of the three forms, with and without *)
(* wildcards, resolved against a listing that is fixed at the start.       *)

B_CSV == <<"b", ".", "csv">>
A_PARQUET == <<"a", ".", "parquet">>
D_A_CSV == <<"d", "/", "a", ".", "csv">>

MaxListing == 2
Names == {A_CSV, B_CSV, A_PARQUET, D_A_CSV}

\* the listings: up to MaxListing distinct names, in any order
Listings ==
    {l \in UNION {[1..n -> Names] : n \in 0..MaxListing} :
        \A i, j \in 1..Len(l) : i # j => l[i] # l[j]}

Patterns == {<<"*", ".", "csv">>, <<"*", ".", "parquet">>, <<"*">>,
             <<"d", "/", "*">>, <<"d", "/", "*", ".", "csv">>}

RestUrl(bucket, key) ==
    <<"http://", "h", "/", "buckets", "/">> \o bucket \o <<"/", "objects", "/">> \o key
LegacyUrl(bucket, key) == <<"http://", "h", "/">> \o bucket \o <<"/">> \o key
S3Url(bucket, key) == <<"s3://">> \o bucket \o <<"/">> \o key

UrlsOf(bucket, key) == {RestUrl(bucket, key), LegacyUrl(bucket, key), S3Url(bucket, key)}

ResolveUrls == UNION {UrlsOf(B1, k) : k \in Patterns \cup {A_CSV}}

InitResolve ==
    /\ now = 0
    /\ cache_metadata = << >>
    /\ metadata_file = << >>
    /\ disk = << >>
    /\ dirs = {CACHE_DIR}
    /\ listing \in [Buckets -> Listings]
    /\ remote = [ref \in {<<B1, listing[B1][i]>> : i \in 1..Len(listing[B1])} |-> <<1>>]
    /\ downloaded = << >>
    /\ lastOk = << >>
    /\ views = << >>
    /\ last = NoCall
    /\ threads = NoThreads
    /\ connection = OpenConnection
    /\ proxy_instance = << >>
    /\ instances = << >>

\* the listing request fails
ListFault == [kind |-> "list", key |-> <<>>]

\* convert_url_to_local_path(url) called, under fault
ConvertUrlCall(url, fault) ==
        LET r == convert_url_to_local_path(ProxyState, Env(fault), url)
        IN /\ Install(r.s)
           /\ last' = [NoCall EXCEPT !.op = "convert_url_to_local_path", !.arg = url,
                                     !.ret = r.ret, !.reqs = r.s.reqs, !.exc = r.exc,
                                     !.sel = r.sel]
           /\ UNCHANGED <<proxy_instance, instances, connection, threads, now, remote, listing, lastOk, views>>

\* one call of convert_url_to_local_path(url)
CallConvertUrl ==
    \E url \in ResolveUrls, fault \in {NoFault, ListFault} : ConvertUrlCall(url, fault)

NextResolve ==
    \/ CallConvertUrl
    \/ ExternalDelete

SpecResolve == InitResolve /\ [][NextResolve]_vars

----------------------------------------------------------------------------
(* The rewriting specification: queries with one or two quoted literals,   *)
(* rewritten against a store that holds a.csv and does not hold b.csv.     *)

Quotes == {SQ, DQ}

\* a quoted literal; an open one has no closing quote
Literal(quote, url, closed) == <<quote>> \o url \o (IF closed THEN <<quote>> ELSE <<>>)

\* the URLs of the literals: two forms of an object the store holds, one of an
\* object it does not hold
LiteralUrls == {RestUrl(B1, A_CSV), S3Url(B1, A_CSV), S3Url(B1, B_CSV)}

ClosedLiterals == {Literal(q, u, TRUE) : q \in Quotes, u \in LiteralUrls}
OpenLiterals == {Literal(q, u, FALSE) : q \in Quotes, u \in LiteralUrls}

Select == <<"select", "from">>
Where == <<"where", "x", "=", SQ, "y", SQ>>
Comma == <<",">>

OneLiteral(l) == Select \o l \o Where
TwoLiterals(l1, l2) == Select \o l1 \o Comma \o l2

\* the REST form under https
HttpsUrl(bucket, key) == <<"https://">> \o Tail(RestUrl(bucket, key))

Queries ==
    {OneLiteral(l) : l \in ClosedLiterals}
    \cup {OneLiteral(Literal(q, HttpsUrl(B1, A_CSV), TRUE)) : q \in Quotes}
    \cup {TwoLiterals(l1, l2) : l1 \in ClosedLiterals, l2 \in ClosedLiterals \cup OpenLiterals}

InitRewrite ==
    /\ now = 0
    /\ cache_metadata = << >>
    /\ metadata_file = << >>
    /\ disk = << >>
    /\ dirs = {CACHE_DIR}
    /\ listing = [b \in Buckets |-> <<A_CSV>>]
    /\ remote = [ref \in {<<B1, A_CSV>>} |-> <<1>>]
    /\ downloaded = << >>
    /\ lastOk = << >>
    /\ views = << >>
    /\ last = NoCall
    /\ threads = NoThreads
    /\ connection = OpenConnection
    /\ proxy_instance = << >>
    /\ instances = << >>

\* update_catalog_query(query) called, under fault
UpdateCatalogQueryCall(query, fault) ==
        LET r == update_catalog_query(ProxyState, Env(fault), query)
        IN /\ Install(r.s)
           /\ last' = [NoCall EXCEPT !.op = "update_catalog_query", !.arg = query,
                                     !.out = r.out, !.reqs = r.s.reqs, !.exc = r.exc,
                                     !.n = r.n, !.fault = fault]
           /\ UNCHANGED <<proxy_instance, instances, connection, threads, now, remote, listing, lastOk, views>>

\* one call of update_catalog_query(query)
CallUpdateCatalogQuery ==
    \E query \in Queries, fault \in {NoFault, [kind |-> "connect", key |-> A_CSV]} :
        UpdateCatalogQueryCall(query, fault)

NextRewrite ==
    \/ CallUpdateCatalogQuery
    \/ ExternalDelete

SpecRewrite == InitRewrite /\ [][NextRewrite]_vars

----------------------------------------------------------------------------
(* The catalog specification: catalogs of one or two entries loaded into a *)
(* connection, against a store that holds a.csv.                           *)

MaxEntries == 2

T1 == <<"t1">>
T_2 == <<"t", "-", "2">>
Tables == {T1, T_2}

PlainQuery == <<"select", "1">>
UrlQuery == OneLiteral(Literal(SQ, RestUrl(B1, A_CSV), TRUE))

Meta(type, has_query, query, format) ==
    [type |-> type, has_query |-> has_query, query |-> query,
     bucket |-> B1, prefix |-> <<>>, format |-> format]

Metas == {Meta("dummy", FALSE, <<>>, "parquet"),
          Meta("none", TRUE, PlainQuery, "parquet"),
          Meta("none", TRUE, UrlQuery, "parquet"),
          Meta("none", FALSE, <<>>, "csv")}

Entries == [tbl : Tables, meta : Metas]

\* a catalog file: entries in the order of the file, no table twice
Catalogs ==
    {cfg \in UNION {[1..n -> Entries] : n \in 1..MaxEntries} :
        \A i, j \in 1..Len(cfg) : i # j => cfg[i].tbl # cfg[j].tbl}

\* the catalog files: none, an empty document, or a document with entries
CatalogFiles == {MissingFile, CatalogFile(<<>>)} \cup {CatalogFile(cfg) : cfg \in Catalogs}

CatalogFaults == {NoFault} \cup [kind : {"connect", "mkdir"}, key : {A_CSV}]

InitCatalog == InitRewrite

\* load_catalog(con, cat_path) called for the catalog file doc, under fault
LoadCatalogCall(doc, fault) ==
        LET r == load_catalog(ProxyState, views, Env(fault), doc)
        IN /\ Install(r.s)
           /\ views' = r.views
           /\ last' = [NoCall EXCEPT !.op = "load_catalog", !.arg = doc.cfg,
                                     !.found = doc.found,
                                     !.exc = r.exc, !.log = r.log, !.reqs = r.s.reqs]
           /\ UNCHANGED <<proxy_instance, instances, connection, threads, now, remote, listing, lastOk>>

\* DuckDBManager.reload_catalog: load_catalog on the connection there is
CallLoadCatalog ==
    \E doc \in CatalogFiles, fault \in CatalogFaults : LoadCatalogCall(doc, fault)

\* duckdb.connect(): a connection with no views
Connect ==
    /\ views # << >>
    /\ views' = << >>
    /\ last' = [NoCall EXCEPT !.op = "connect"]
    /\ UNCHANGED <<proxy_instance, instances, connection, threads, now, cache_metadata, metadata_file, disk, dirs, remote, listing,
                   downloaded, lastOk>>

NextCatalog ==
    \/ CallLoadCatalog
    \/ Connect

SpecCatalog == InitCatalog /\ [][NextCatalog]_vars

----------------------------------------------------------------------------
(* The sampling specification: wildcard URLs resolved and raw tables       *)
(* loaded against a listing that is empty, fails, or has names.            *)

\* a name in capitals, as a store may list it
A_CSV_CAPITALS == <<"A", ".", "CSV">>

SampledListings == {<<>>, <<A_CSV>>, <<B_CSV, A_CSV>>, <<A_CSV_CAPITALS, B_CSV>>}

\* the wildcard keys: *.csv, *, and the two shapes with ** (line 88 of
\* catalog.py builds the first of them)
SamplePatterns == {<<"*", ".", "csv">>, <<"*">>,
                   <<"*", "*", "/", "*", ".", "csv">>,
                   <<"d", "/", "*", "*", "/", "*", ".", "csv">>}

SampleUrls == UNION {UrlsOf(B1, k) : k \in SamplePatterns}

\* catalog files of raw tables only, one or two of them
RawTables ==
    {CatalogFile(cfg) : cfg \in {c \in Catalogs :
        \A i \in 1..Len(c) : c[i].meta = Meta("none", FALSE, <<>>, "csv")}}

InitSampling ==
    /\ now = 0
    /\ cache_metadata = << >>
    /\ metadata_file = << >>
    /\ disk = << >>
    /\ dirs = {CACHE_DIR}
    /\ listing \in [Buckets -> SampledListings]
    /\ remote = [ref \in {<<B1, listing[B1][i]>> : i \in 1..Len(listing[B1])} |-> <<1>>]
    /\ downloaded = << >>
    /\ lastOk = << >>
    /\ views = << >>
    /\ last = NoCall
    /\ threads = NoThreads
    /\ connection = OpenConnection
    /\ proxy_instance = << >>
    /\ instances = << >>

\* one call of convert_url_to_local_path on a wildcard URL
CallConvertWildcard ==
    \E url \in SampleUrls, fault \in {NoFault, ListFault} : ConvertUrlCall(url, fault)

\* one load of a catalog of raw tables
CallLoadRawTables ==
    \E doc \in RawTables, fault \in {NoFault, ListFault} : LoadCatalogCall(doc, fault)

NextSampling ==
    \/ CallConvertWildcard
    \/ CallLoadRawTables
    \/ ExternalDelete

SpecSampling == InitSampling /\ [][NextSampling]_vars

----------------------------------------------------------------------------
(* The listing specification: the two listing calls, on every answer of a  *)
(* few entries.                                                            *)

MaxEntriesListed == 2

EntryNames == {A_CSV, B_CSV}

ListingEntries ==
    {DictEntry({"name"}, A_CSV, <<>>),
     DictEntry({"key"}, <<>>, A_CSV),
     DictEntry({"name", "key"}, B_CSV, A_CSV),
     StrEntry(B_CSV)}

EntryLists == UNION {[1..n -> ListingEntries] : n \in 0..MaxEntriesListed}

Bodies ==
    {ListBody(items) : items \in EntryLists}
    \cup {WrapperBody(f, items) : f \in {<<"objects">>, <<"contents">>}, items \in EntryLists}
    \cup {MappingBody(names) : names \in UNION {[1..n -> EntryNames] : n \in 0..MaxEntriesListed}}

Responses ==
    {[status |-> "200", body |-> b] : b \in Bodies}
    \cup {[status |-> st, body |-> ListBody(<<>>)] : st \in {"fail", "error"}}

\* list_objects(bucket), answered by response
CallListObjects ==
    \E bucket \in Buckets, response \in Responses :
        LET r == list_objects_answered(response)
        IN /\ last' = [NoCall EXCEPT !.op = "list_objects", !.bucket = bucket,
                                     !.arg = response, !.out = r.ret, !.exc = r.exc,
                                     !.reqs = <<List(bucket, response.status)>>]
           /\ UNCHANGED <<proxy_instance, instances, connection, threads, now, cache_metadata, metadata_file, disk, dirs, remote,
                          listing, downloaded, lastOk, views>>

\* list_buckets(), answered by response
CallListBuckets ==
    \E response \in Responses :
        LET r == list_buckets_answered(response)
        IN /\ last' = [NoCall EXCEPT !.op = "list_buckets", !.arg = response,
                                     !.out = r.ret, !.exc = r.exc,
                                     !.reqs = <<List(<<>>, response.status)>>]
           /\ UNCHANGED <<proxy_instance, instances, connection, threads, now, cache_metadata, metadata_file, disk, dirs, remote,
                          listing, downloaded, lastOk, views>>

NextListing ==
    \/ CallListObjects
    \/ CallListBuckets

SpecListing == InitRewrite /\ [][NextListing]_vars

----------------------------------------------------------------------------
(* The threads specification: two threads inside download_file on the one  *)
(* proxy, statement by statement.  The store holds a.csv and b.csv.        *)

ThreadKeys == {A_CSV, B_CSV}

InitThreads ==
    /\ now = 0
    /\ cache_metadata = << >>
    /\ metadata_file = << >>
    /\ disk = << >>
    /\ dirs = {CACHE_DIR}
    /\ listing = [b \in Buckets |-> <<>>]
    /\ remote = [ref \in {B1} \X ThreadKeys |-> <<1>>]
    /\ downloaded = << >>
    /\ lastOk = << >>
    /\ views = << >>
    /\ last = NoCall
    /\ threads = NoThreads
    /\ connection = OpenConnection
    /\ proxy_instance = << >>
    /\ instances = << >>

ThreadRel(t) == cache_relative_path(B1, threads[t].key)
ThreadFull(t) == cache_full_path(B1, threads[t].key)

\* the thread goes to another statement, with the rest of its record as given
Goto(t, rec, pc) == threads' = [threads EXCEPT ![t] = [rec EXCEPT !.pc = pc]]

\* lines 191-208: the call, up to the test of the cache; on a hit the entry is
\* touched in memory and the thread goes on to save the index
ThreadCall(t) ==
    \E object_key \in ThreadKeys :
        LET rel == cache_relative_path(B1, object_key)
            full == cache_full_path(B1, object_key)
            hit == is_cached(ProxyState, now, rel, full)
        IN /\ threads[t].pc = "idle"
           /\ dirs' = dirs \cup Makedirs(Dirname(full))
           /\ cache_metadata' =
                 IF hit THEN Put(cache_metadata, rel,
                                 [cache_metadata[rel] EXCEPT !.last_access = now])
                 ELSE cache_metadata
           /\ Goto(t, [Idle EXCEPT !.key = object_key], IF hit THEN "save" ELSE "get")
           /\ last' = [NoCall EXCEPT !.op = "thread_call"]
           /\ UNCHANGED <<proxy_instance, instances, connection, now, metadata_file, disk, remote, listing, downloaded, lastOk, views>>

\* line 216: the GET, answered with the bytes of the object
ThreadGet(t) ==
    /\ threads[t].pc = "get"
    /\ Goto(t, [threads[t] EXCEPT !.got = remote[object_url(B1, threads[t].key)]], "open")
    /\ last' = [NoCall EXCEPT !.op = "thread_get"]
    /\ UNCHANGED <<proxy_instance, instances, connection, now, cache_metadata, metadata_file, disk, dirs, remote, listing,
                   downloaded, lastOk, views>>

\* line 219: open(cache_full_path, 'wb') empties the file
ThreadOpen(t) ==
    /\ threads[t].pc = "open"
    /\ disk' = Put(disk, ThreadFull(t), <<>>)
    /\ Goto(t, threads[t], "write")
    /\ last' = [NoCall EXCEPT !.op = "thread_open"]
    /\ UNCHANGED <<proxy_instance, instances, connection, now, cache_metadata, metadata_file, dirs, remote, listing,
                   downloaded, lastOk, views>>

\* lines 220-221: the body is written and the file closed
ThreadWrite(t) ==
    /\ threads[t].pc = "write"
    /\ disk' = Put(disk, ThreadFull(t), threads[t].got)
    /\ downloaded' = Put(downloaded, ThreadRel(t), threads[t].got)
    /\ Goto(t, threads[t], "record")
    /\ last' = [NoCall EXCEPT !.op = "thread_write"]
    /\ UNCHANGED <<proxy_instance, instances, connection, now, cache_metadata, metadata_file, dirs, remote, listing, lastOk, views>>

\* lines 224-228: the entry is put in the index in memory
ThreadRecord(t) ==
    /\ threads[t].pc = "record"
    /\ cache_metadata' = Put(cache_metadata, ThreadRel(t),
                             [last_access |-> now, size |-> Len(threads[t].got),
                              source_url |-> <<B1, threads[t].key>>])
    /\ Goto(t, threads[t], "save")
    /\ last' = [NoCall EXCEPT !.op = "thread_record"]
    /\ UNCHANGED <<proxy_instance, instances, connection, now, metadata_file, disk, dirs, remote, listing, downloaded, lastOk, views>>

\* lines 89-90: open(cache_metadata_path, 'w') empties the document and
\* json.dump serialises the index as it is now into the buffer of the file
ThreadSaveOpen(t) ==
    /\ threads[t].pc = "save"
    /\ metadata_file' = << >>
    /\ Goto(t, [threads[t] EXCEPT !.snap = cache_metadata], "flush")
    /\ last' = [NoCall EXCEPT !.op = "thread_save_open"]
    /\ UNCHANGED <<proxy_instance, instances, connection, now, cache_metadata, disk, dirs, remote, listing, downloaded, lastOk, views>>

\* line 90, leaving the with block: the buffer is written out and the file closed
ThreadSaveClose(t) ==
    /\ threads[t].pc = "flush"
    /\ metadata_file' = threads[t].snap
    /\ Goto(t, threads[t], "return")
    /\ last' = [NoCall EXCEPT !.op = "thread_save_close"]
    /\ UNCHANGED <<proxy_instance, instances, connection, now, cache_metadata, disk, dirs, remote, listing, downloaded, lastOk, views>>

\* lines 211 and 232: return cache_full_path
ThreadReturn(t) ==
    /\ threads[t].pc = "return"
    /\ threads' = [threads EXCEPT ![t] = Idle]
    /\ last' = [NoCall EXCEPT !.op = "thread_return", !.bucket = B1,
                              !.arg = threads[t].key, !.ret = Path(ThreadFull(t))]
    /\ UNCHANGED <<proxy_instance, instances, connection, now, cache_metadata, metadata_file, disk, dirs, remote, listing,
                   downloaded, lastOk, views>>

NextThreads ==
    \E t \in Threads :
        \/ ThreadCall(t)
        \/ ThreadGet(t)
        \/ ThreadOpen(t)
        \/ ThreadWrite(t)
        \/ ThreadRecord(t)
        \/ ThreadSaveOpen(t)
        \/ ThreadSaveClose(t)
        \/ ThreadReturn(t)

SpecThreads == InitThreads /\ [][NextThreads]_vars

----------------------------------------------------------------------------
(* The manager specification (database.py): statements run through the     *)
(* manager and through a reference to its connection, and close().         *)

\* close() that forgets the connection without closing it
close_dropping_handle_only(c) == [c EXCEPT !.handle = FALSE]

\* lines 321-325: DuckDBManager.close
close(c) == IF c.handle THEN [handle |-> FALSE, closed |-> TRUE] ELSE c

\* a statement: a CREATE OR REPLACE VIEW of a name, or a plain SELECT
CreateView(name_text, kind) == [create |-> TRUE, name |-> name_text, kind |-> kind]
SelectOne == [create |-> FALSE, name |-> <<>>, kind |-> "none"]

Statements ==
    {SelectOne} \cup {CreateView(n, k) : n \in {T1, T_2, safe_tbl_of(T_2)}, k \in {"query", "dummy"}}

\* connection.sql(statement) on the connection object the manager opened: the
\* engine raises on a closed connection and on a statement it rejects
connection_sql(c, vs, statement) ==
    IF c.closed THEN [views |-> vs, exc |-> TRUE]
    ELSE IF statement.create THEN con_sql(vs, statement.name, statement.kind, TRUE)
    ELSE [views |-> vs, exc |-> FALSE]

\* lines 109-119: execute_query; with the handle cleared, None has no sql
execute_query(c, vs, statement) ==
    IF ~c.handle THEN [views |-> vs, exc |-> TRUE]
    ELSE connection_sql(c, vs, statement)

\* manager.close()
CallClose ==
    /\ connection' = close(connection)
    /\ last' = [NoCall EXCEPT !.op = "close"]
    /\ UNCHANGED <<proxy_instance, instances, threads, now, cache_metadata, metadata_file, disk, dirs,
                   remote, listing,
                   downloaded, lastOk, views>>

\* manager.execute_query(statement)
CallExecuteQuery ==
    \E statement \in Statements :
        LET r == execute_query(connection, views, statement)
        IN /\ views' = r.views
           /\ last' = [NoCall EXCEPT !.op = "execute_query", !.arg = statement, !.exc = r.exc]
           /\ UNCHANGED <<proxy_instance, instances, connection, threads, now, cache_metadata, metadata_file, disk, dirs,
                          remote, listing, downloaded, lastOk>>

\* con.sql(statement) by a caller that kept manager.connection
CallConnectionSql ==
    \E statement \in Statements :
        LET r == connection_sql(connection, views, statement)
        IN /\ views' = r.views
           /\ last' = [NoCall EXCEPT !.op = "connection_sql", !.arg = statement, !.exc = r.exc]
           /\ UNCHANGED <<proxy_instance, instances, connection, threads, now, cache_metadata, metadata_file, disk, dirs,
                          remote, listing, downloaded, lastOk>>

NextManager ==
    \/ CallClose
    \/ CallExecuteQuery
    \/ CallConnectionSql

SpecManager == InitRewrite /\ [][NextManager]_vars

----------------------------------------------------------------------------
(* The persistence specification: fetches and sweeps whose save of the     *)
(* document can fail, and a proxy constructed anew over the cache folder.  *)

\* the faults of _save_cache_metadata
SaveFaults == [kind : {"save_open", "save_dump"}, key : {<<>>}]

\* one call of download_file, its save failing or not
CallDownloadFileSaving ==
    \E bucket \in Buckets, object_key \in FetchKeys, fault \in {NoFault} \cup SaveFaults :
        DownloadFileUnder(bucket, object_key, fault, fault)

\* one call of clean_expired_cache, its save failing or not
CallCleanExpiredCacheSaving ==
    \E fault \in {NoFault} \cup SaveFaults :
        LET s == clean_expired_cache(ProxyState, Env(fault), {})
        IN /\ Install(s)
           /\ last' = [NoCall EXCEPT !.op = "clean_expired_cache", !.fault = fault,
                                     !.removed = Cardinality(DOMAIN cache_metadata)
                                                   - Cardinality(DOMAIN s.meta)]
           /\ UNCHANGED <<proxy_instance, instances, connection, threads, now, remote, listing, lastOk, views>>

\* OpenS3FileProxy(cache_dir=...) constructed over the cache folder there is:
\* lines 66-70 make the folder and load the document into the index
Construct ==
    LET s == load_cache_metadata([ProxyState EXCEPT !.dirs = dirs \cup {CACHE_DIR}])
    IN /\ Install(s)
       /\ last' = [NoCall EXCEPT !.op = "construct"]
       /\ UNCHANGED <<proxy_instance, instances, connection, threads, now, remote, listing, lastOk, views>>

NextPersist ==
    \/ Tick
    \/ CallDownloadFileSaving
    \/ CallCleanExpiredCacheSaving
    \/ ExternalDelete
    \/ Construct

SpecPersist == Init /\ [][NextPersist]_vars

----------------------------------------------------------------------------
(* The quoting specification: queries whose literals resolve to objects    *)
(* with a quote in their name, and queries that were rewritten before.     *)

B2 == <<"b2">>
A_QUOTE_B_CSV == <<"a", SQ, "b", ".", "csv">>
A_DQUOTE_B_CSV == <<"a", DQ, "b", ".", "csv">>

\* an object whose name holds a quote and the scheme of a URL after it, and
\* the object that the text after that quote names
B3 == <<"b3">>
Y == <<"y">>
X_QUOTE_S3_B1_Y == <<"x", SQ, "s3://", "b1", "/", "y">>

\* a wildcard URL for each bucket, and the URL of each object
QuotedUrls == {S3Url(B1, <<"*">>), S3Url(B2, <<"*">>), S3Url(B3, <<"*">>),
               S3Url(B1, A_QUOTE_B_CSV), S3Url(B2, A_DQUOTE_B_CSV)}

QuotedLiterals == {Literal(q, u, TRUE) : q \in Quotes, u \in QuotedUrls}

QueriesOfOne == {OneLiteral(l) : l \in QuotedLiterals}
QueriesOfTwo ==
    {TwoLiterals(Literal(q1, S3Url(B1, <<"*">>), TRUE), Literal(q2, S3Url(B2, <<"*">>), TRUE)) :
        q1 \in Quotes, q2 \in Quotes}

InitQuoting ==
    /\ now = 0
    /\ cache_metadata = << >>
    /\ metadata_file = << >>
    /\ disk = << >>
    /\ dirs = {CACHE_DIR}
    /\ listing = (B1 :> <<A_QUOTE_B_CSV>>) @@ (B2 :> <<A_DQUOTE_B_CSV>>)
                    @@ (B3 :> <<X_QUOTE_S3_B1_Y>>)
    /\ remote = (<<B1, A_QUOTE_B_CSV>> :> <<1>>) @@ (<<B2, A_DQUOTE_B_CSV>> :> <<1>>)
                    @@ (<<B3, X_QUOTE_S3_B1_Y>> :> <<1>>) @@ (<<B1, Y>> :> <<1>>)
    /\ downloaded = << >>
    /\ lastOk = << >>
    /\ views = << >>
    /\ last = NoCall
    /\ threads = NoThreads
    /\ connection = OpenConnection
    /\ proxy_instance = << >>
    /\ instances = << >>

\* one call of update_catalog_query on a query with quoted URLs
CallUpdateQuotedQuery ==
    \E query \in QueriesOfOne \cup QueriesOfTwo, fault \in {NoFault, ListFault} :
        UpdateCatalogQueryCall(query, fault)

\* update_catalog_query called on the query that the call before it returned
CallUpdateCatalogQueryAgain ==
    /\ last.op = "update_catalog_query"
    /\ UpdateCatalogQueryCall(last.out, NoFault)

NextQuoting ==
    \/ CallUpdateQuotedQuery
    \/ CallUpdateCatalogQueryAgain
    \/ ExternalDelete

SpecQuoting == InitQuoting /\ [][NextQuoting]_vars

----------------------------------------------------------------------------
(* The paths specification: URLs resolved against listings whose names are *)
(* paths that lead out of the folder of the bucket.                        *)

CACHE_METADATA_JSON == <<"cache_metadata", ".", "json">>

\* line 69: the path of the index document
cache_metadata_path == OsPathJoin(CACHE_DIR, CACHE_METADATA_JSON)

\* a name that starts with a slash, and names that climb with ..
SLASH_X_A_CSV == <<"/", "x", "/", "a", ".", "csv">>
UP_CACHE_METADATA_JSON == <<"..", "/">> \o CACHE_METADATA_JSON
UP_UP_A_CSV == <<"..", "/", "..", "/", "a", ".", "csv">>

PathListings == {<<A_CSV>>, <<SLASH_X_A_CSV>>, <<UP_CACHE_METADATA_JSON, A_CSV>>,
                 <<UP_UP_A_CSV>>}

\* the wildcard URL, and URLs that name a key themselves
PathUrls == {S3Url(B1, <<"*">>), RestUrl(B1, <<"*">>), S3Url(B1, A_CSV),
             S3Url(B1, UP_CACHE_METADATA_JSON), RestUrl(B1, UP_UP_A_CSV)}

InitPaths ==
    /\ now = 0
    /\ cache_metadata = << >>
    /\ metadata_file = << >>
    /\ disk = << >>
    /\ dirs = {CACHE_DIR}
    /\ listing \in [Buckets -> PathListings]
    /\ remote = [ref \in {<<B1, listing[B1][i]>> : i \in 1..Len(listing[B1])} |-> <<1>>]
    /\ downloaded = << >>
    /\ lastOk = << >>
    /\ views = << >>
    /\ last = NoCall
    /\ threads = NoThreads
    /\ connection = OpenConnection
    /\ proxy_instance = << >>
    /\ instances = << >>

\* one call of convert_url_to_local_path on one of these URLs
CallConvertPathUrl ==
    \E url \in PathUrls, fault \in {NoFault, ListFault} : ConvertUrlCall(url, fault)

NextPaths ==
    \/ CallConvertPathUrl
    \/ ExternalDelete

SpecPaths == InitPaths /\ [][NextPaths]_vars

----------------------------------------------------------------------------
(* The shared proxy (lines 498-514): threads call get_proxy_instance(),     *)
(* statement by statement, and fetch through the proxy they were given.     *)
(* Each proxy's index is kept in instances; cache_metadata is not used.     *)

\* a thread outside get_proxy_instance that holds no proxy yet: made is the
\* object it has constructed and not yet assigned, proxy the one it was returned
Caller == [pc |-> "idle", made |-> << >>, proxy |-> << >>]

InitShared ==
    /\ now = 0
    /\ cache_metadata = << >>
    /\ metadata_file = << >>
    /\ disk = << >>
    /\ dirs = {CACHE_DIR}
    /\ listing = [b \in Buckets |-> <<>>]
    /\ remote = [ref \in {B1} \X ThreadKeys |-> <<1>>]
    /\ downloaded = << >>
    /\ lastOk = << >>
    /\ views = << >>
    /\ last = NoCall
    /\ threads = [t \in Threads |-> Caller]
    /\ connection = OpenConnection
    /\ proxy_instance = << >>
    /\ instances = << >>

\* line 512: if _proxy_instance is None
GetProxyTest(t) ==
    /\ threads[t].pc = "idle"
    /\ Goto(t, threads[t], IF proxy_instance = << >> THEN "construct" ELSE "return")
    /\ last' = [NoCall EXCEPT !.op = "get_proxy_test"]
    /\ UNCHANGED <<proxy_instance, instances, connection, now, cache_metadata, metadata_file,
                   disk, dirs, remote, listing, downloaded, lastOk, views>>

\* line 513, the right-hand side: OpenS3FileProxy(**kwargs) makes the cache
\* directory and loads the document into the index of the new object
GetProxyConstruct(t) ==
    LET s == load_cache_metadata([ProxyState EXCEPT !.dirs = dirs \cup Makedirs(CACHE_DIR)])
    IN /\ threads[t].pc = "construct"
       /\ dirs' = s.dirs
       /\ instances' = Append(instances, s.meta)
       /\ Goto(t, [threads[t] EXCEPT !.made = <<Len(instances) + 1>>], "assign")
       /\ last' = [NoCall EXCEPT !.op = "get_proxy_construct"]
       /\ UNCHANGED <<proxy_instance, connection, now, cache_metadata, metadata_file, disk,
                      remote, listing, downloaded, lastOk, views>>

\* line 513, the assignment: _proxy_instance = <the new object>
GetProxyAssign(t) ==
    /\ threads[t].pc = "assign"
    /\ proxy_instance' = threads[t].made
    /\ Goto(t, [threads[t] EXCEPT !.made = << >>], "return")
    /\ last' = [NoCall EXCEPT !.op = "get_proxy_assign"]
    /\ UNCHANGED <<instances, connection, now, cache_metadata, metadata_file, disk, dirs,
                   remote, listing, downloaded, lastOk, views>>

\* line 514: return _proxy_instance, the global as it is read now
GetProxyReturn(t) ==
    /\ threads[t].pc = "return"
    /\ Goto(t, [threads[t] EXCEPT !.proxy = proxy_instance], "idle")
    /\ last' = [NoCall EXCEPT !.op = "get_proxy_return"]
    /\ UNCHANGED <<proxy_instance, instances, connection, now, cache_metadata, metadata_file,
                   disk, dirs, remote, listing, downloaded, lastOk, views>>

\* proxy.download_file(bucket, object_key) by a thread, on the proxy it holds
ProxyDownloadFile(t) ==
    \E object_key \in ThreadKeys :
        LET i == threads[t].proxy[1]
            r == download_file([ProxyState EXCEPT !.meta = instances[i]], Env(NoFault),
                               B1, object_key)
        IN /\ threads[t].pc = "idle"
           /\ threads[t].proxy # << >>
           /\ instances' = [instances EXCEPT ![i] = r.s.meta]
           /\ metadata_file' = r.s.file
           /\ disk' = r.s.disk
           /\ dirs' = r.s.dirs
           /\ downloaded' = r.s.dl
           /\ last' = [NoCall EXCEPT !.op = "proxy_download_file", !.bucket = B1,
                                     !.arg = object_key, !.ret = r.ret, !.reqs = r.s.reqs]
           /\ UNCHANGED <<proxy_instance, connection, threads, now, cache_metadata, remote,
                          listing, lastOk, views>>

NextShared ==
    \E t \in Threads :
        \/ GetProxyTest(t)
        \/ GetProxyConstruct(t)
        \/ GetProxyAssign(t)
        \/ GetProxyReturn(t)
        \/ ProxyDownloadFile(t)

SpecShared == InitShared /\ [][NextShared]_vars

----------------------------------------------------------------------------
(* Claims about the cache.                                                 *)

\* what the latest step is: a call of download_file that did not raise
Fetched == last.op = "download_file" /\ ~last.exc
FetchStep == last'.op = "download_file" /\ ~last'.exc
FetchRef == <<last'.bucket, last'.arg>>
FetchRel == cache_relative_path(last'.bucket, last'.arg)
FetchFull == cache_full_path(last'.bucket, last'.arg)

\* the call of this step comes inside the TTL window of an earlier fetch of the
\* same object that returned a path
InWindow ==
    /\ FetchRef \in DOMAIN lastOk
    /\ now - lastOk[FetchRef].time < cache_expiration

\* C1 as stated: a fetch of an object inside the TTL window of an earlier fetch
\* of it that returned a path sends no request and returns that same path.
C1_SecondFetchSendsNothing ==
    [][(FetchStep /\ InWindow)
          => (last'.reqs = <<>> /\ last'.ret = Path(lastOk[FetchRef].path))]_vars

\* C1 amended: the same, for an earlier fetch that returned the path of the
\* object's own key (not the path of the bare filename it fell back to) and
\* whose file is still on disk at the second call.
C1_SecondFetchOfOwnPathSendsNothing ==
    [][(/\ FetchStep /\ InWindow
        /\ lastOk[FetchRef].path = FetchFull
        /\ FetchFull \in DOMAIN disk)
          => (last'.reqs = <<>> /\ last'.ret = Path(FetchFull))]_vars

\* C1 witness: a fetch at a later clock value than the download was answered
\* from the cache without a request.
C1_Witness ==
    /\ Fetched /\ last.ret.ok /\ last.reqs = <<>>
    /\ now > 0
    /\ last.ret.path = cache_full_path(last.bucket, last.arg)

\* C2: a fetch sends no request and returns the path exactly when the index has
\* an entry at the object's relative path, the file is on disk and the entry's
\* age is below the TTL; in every other state its first act is a GET for the
\* object's own key.
C2_HitIffEntryFileFresh ==
    [][FetchStep =>
        LET hit == /\ FetchRel \in DOMAIN cache_metadata
                   /\ FetchFull \in DOMAIN disk
                   /\ now - cache_metadata[FetchRel].last_access < cache_expiration
        IN /\ hit <=> (last'.reqs = <<>> /\ last'.ret = Path(FetchFull))
           /\ ~hit => /\ Len(last'.reqs) >= 1
                      /\ last'.reqs[1].kind = "GET"
                      /\ last'.reqs[1].key = last'.arg]_vars

\* C2 witness: a fetch found the entry but not the file, and downloaded again.
C2_Witness ==
    /\ Fetched /\ last.pre.entry /\ ~last.pre.file
    /\ last.ret.ok /\ Len(last.reqs) = 1 /\ last.reqs[1].status = "200"

\* C3 as stated: the file of every index entry, when it is on disk, holds the
\* bytes of the entry's last complete download.
C3_FileIsLastDownload ==
    \A rel \in DOMAIN cache_metadata :
        LET full == OsPathJoin(CACHE_DIR, rel)
        IN full \in DOMAIN disk => disk[full] = downloaded[rel]

\* C4 as stated: the path a fetch returns holds the remote bytes of the object
\* (bucket, key) that was asked for.
C4_ReturnsBytesOfSameObject ==
    (Fetched /\ last.ret.ok) =>
        /\ last.ret.path \in DOMAIN disk
        /\ <<last.bucket, last.arg>> \in DOMAIN remote
        /\ disk[last.ret.path] = remote[<<last.bucket, last.arg>>]

\* the last request of the latest call was a GET answered 200
Downloaded == Len(last.reqs) > 0 /\ last.reqs[Len(last.reqs)].status = "200"

\* C4 amended: the path a fetch returns right after a GET answered 200 holds the
\* remote bytes of the object that GET asked for, which is the object's own key
\* or, after a failed GET of a key with a format folder, its bare filename.
C4_ReturnsBytesOfDownloadedObject ==
    (Fetched /\ last.ret.ok /\ Downloaded) =>
        LET got == last.reqs[Len(last.reqs)].key
        IN /\ \/ got = last.arg
              \/ has_format_folder(last.arg) /\ got = alt_key(last.arg)
           /\ last.ret.path = cache_full_path(last.bucket, got)
           /\ last.ret.path \in DOMAIN disk
           /\ <<last.bucket, got>> \in DOMAIN remote
           /\ disk[last.ret.path] = remote[<<last.bucket, got>>]

\* C4 witness: a fetch of csv/a.csv returned the bytes of a.csv after its retry.
C4_Witness ==
    /\ Fetched /\ last.ret.ok /\ Downloaded
    /\ last.arg = CSV_A_CSV /\ Len(last.reqs) = 2
    /\ disk[last.ret.path] = <<2>>

SweepStep == last'.op = "clean_expired_cache"

Expired == {p \in DOMAIN cache_metadata :
               now - cache_metadata[p].last_access > cache_expiration}

Restrict(f, keep) == [x \in DOMAIN f \cap keep |-> f[x]]

\* C5 as stated: a sweep removes exactly the entries older than the TTL, each
\* with its file, and nothing else.
C5_SweepRemovesExactlyExpired ==
    [][SweepStep =>
        /\ cache_metadata' = Restrict(cache_metadata, DOMAIN cache_metadata \ Expired)
        /\ disk' = Restrict(disk, DOMAIN disk \ {OsPathJoin(CACHE_DIR, p) : p \in Expired})
      ]_vars

\* C5 amended: a sweep removes exactly the entries older than the TTL whose
\* file is absent or is deleted, each with its file, and nothing else; an
\* expired entry whose file cannot be deleted keeps its entry and its file.
C5_SweepRemovesExpiredUnlessStuck ==
    [][SweepStep =>
        LET kept == {p \in Expired :
                        OsPathJoin(CACHE_DIR, p) \in DOMAIN disk \cap last'.stuck}
            gone == Expired \ kept
        IN /\ cache_metadata' = Restrict(cache_metadata, DOMAIN cache_metadata \ gone)
           /\ disk' = Restrict(disk, DOMAIN disk \ {OsPathJoin(CACHE_DIR, p) : p \in gone})
      ]_vars

\* C5 witness: a sweep has removed one entry and its file and left a younger one.
C5_Witness ==
    /\ last.op = "clean_expired_cache" /\ last.removed = 1 /\ last.stuck = {}
    /\ Cardinality(DOMAIN cache_metadata) = 1
    /\ Cardinality(DOMAIN disk) = 1

----------------------------------------------------------------------------
(* Claims about wildcard resolution.                                       *)

Resolved == last.op = "convert_url_to_local_path"

\* the listing request of the latest call was answered
Listed == Len(last.reqs) > 0 /\ last.reqs[1].kind = "LIST" /\ last.reqs[1].status = "200"

\* what a pattern asks for: the prefix before its first *, and the extension
\* after *. when it has one
PatternPrefix(pattern) == Split(pattern, "*")[1]
PatternExtension(pattern) ==
    LET i == FindSeq(pattern, <<"*", ".">>)
    IN IF i = 0 THEN <<>> ELSE SubSeq(pattern, i + 2, Len(pattern))

\* whether a name matches a pattern: by extension (and prefix), by prefix, or
\* because the pattern is the bare wildcard
PatternMatches(pattern, name) ==
    LET prefix == PatternPrefix(pattern)
        ext == PatternExtension(pattern)
    IN \/ /\ ext # <<>>
          /\ EndsWith(Lower(name), <<".">> \o ext)
          /\ (prefix = <<>> \/ StartsWith(name, prefix))
       \/ prefix # <<>> /\ StartsWith(name, prefix)
       \/ pattern = <<"*">>

\* C6 as stated: a wildcard URL selects the earliest listed name that matches
\* its pattern, and requests the bytes of that object only.
C6_SelectsEarliestMatch ==
    (Resolved /\ Listed) =>
        \A pattern \in Patterns :
            last.arg \in UrlsOf(B1, pattern) =>
                LET matching(name) == PatternMatches(pattern, name)
                    m == SelectSeq(listing[B1], matching)
                IN m # <<>> =>
                    /\ last.sel = m[1]
                    /\ \A i \in 1..Len(last.reqs) :
                          last.reqs[i].kind = "GET" => last.reqs[i].key = m[1]

\* C7 as stated: *.<ext> against a listing that is not empty and has no name
\* ending with .<ext> selects nothing and downloads nothing, in every URL form.
C7_NoMatchSelectsNothing ==
    (Resolved /\ Listed) =>
        \A ext \in {"csv", "parquet"} :
            (/\ last.arg \in UrlsOf(B1, <<"*", ".", ext>>)
             /\ listing[B1] # <<>>
             /\ \A i \in 1..Len(listing[B1]) :
                   ~EndsWith(Lower(listing[B1][i]), <<".", ext>>))
            => /\ last.sel = <<>>
               /\ ~last.ret.ok
               /\ \A i \in 1..Len(last.reqs) : last.reqs[i].kind # "GET"

----------------------------------------------------------------------------
(* Claims about rewriting.                                                 *)

Rewritten == last.op = "update_catalog_query" /\ ~last.exc

\* the object a literal's URL names
KeyOf(url) == IF url = S3Url(B1, B_CSV) THEN B_CSV ELSE A_CSV

\* what takes the place of a literal: either the local path of its object in
\* the literal's own quotes, or text that still holds the URL
TakesPlace(x, quote, url) ==
    \/ x = <<quote>> \o cache_full_path(B1, KeyOf(url)) \o <<quote>>
    \/ FindSeq(x, url) # 0

\* out is pre, something in place of the first literal, mid, something in place
\* of the second literal, post
Framed(out, pre, q1, u1, mid, q2, u2, post) ==
    \E a \in Len(pre)..Len(out) : \E b \in a..Len(out) :
        /\ SubSeq(out, 1, Len(pre)) = pre
        /\ SubSeq(out, a + 1, a + Len(mid)) = mid
        /\ b >= a + Len(mid)
        /\ SubSeq(out, b + 1, Len(out)) = post
        /\ TakesPlace(SubSeq(out, Len(pre) + 1, a), q1, u1)
        /\ TakesPlace(SubSeq(out, a + Len(mid) + 1, b), q2, u2)

\* C8: the text of the query outside its URL literals is in the output
\* unchanged and in place, and a literal that was substituted has become the
\* local path of its object in the quotes the literal had.
C8_RewriteKeepsTextOutsideLiterals ==
    Rewritten =>
        /\ \A q \in Quotes, u \in LiteralUrls :
              last.arg = OneLiteral(Literal(q, u, TRUE)) =>
                  \E a \in 0..Len(last.out) :
                      /\ SubSeq(last.out, 1, Len(Select)) = Select
                      /\ SubSeq(last.out, a + 1, Len(last.out)) = Where
                      /\ TakesPlace(SubSeq(last.out, Len(Select) + 1, a), q, u)
        /\ \A q1, q2 \in Quotes, u1, u2 \in LiteralUrls, closed \in BOOLEAN :
              last.arg = TwoLiterals(Literal(q1, u1, TRUE), Literal(q2, u2, closed)) =>
                  Framed(last.out, Select, q1, u1, Comma, q2, u2, <<>>)

\* C8 witness: a double-quoted literal was substituted in a query with a
\* quoted string after it.
C8_Witness ==
    /\ Rewritten /\ last.n = 1
    /\ last.arg = OneLiteral(Literal(DQ, RestUrl(B1, A_CSV), TRUE))
    /\ last.out = Select \o <<DQ>> \o cache_full_path(B1, A_CSV) \o <<DQ>> \o Where

\* C9 as stated: a literal that is not resolved, or has no closing quote, is in
\* the output as it was in the input, quotes included; a query none of whose
\* literals was substituted is returned unchanged.
C9_UnresolvedLiteralUnchanged ==
    Rewritten =>
        /\ last.n = 0 => last.out = last.arg
        /\ \A q \in Quotes, u \in LiteralUrls :
              LET unclosed == Literal(q, u, FALSE)
                  failing == Literal(q, S3Url(B1, B_CSV), TRUE)
              IN /\ EndsWith(last.arg, unclosed) => EndsWith(last.out, unclosed)
                 /\ FindSeq(last.arg, failing) # 0 => FindSeq(last.out, failing) # 0

----------------------------------------------------------------------------
(* Claims about the catalog.                                               *)

Loaded == last.op = "load_catalog"

\* the kind of view an entry asks for
KindOf(meta) ==
    IF meta.type = "dummy" THEN "dummy" ELSE IF meta.has_query THEN "query" ELSE "file"

\* C10 as stated: load_catalog returns normally whatever entry fails, every
\* entry is processed, and every entry whose view was created has that view
\* at the end.
C10_LoadCatalogNeverAborts ==
    Loaded =>
        /\ ~last.exc
        /\ Len(last.log) = Len(last.arg)
        /\ \A i \in 1..Len(last.arg) :
              (i <= Len(last.log) /\ last.log[i] = "created") =>
                  /\ last.arg[i].tbl \in DOMAIN views
                  /\ views[last.arg[i].tbl] = KindOf(last.arg[i].meta)

\* C11 as stated: when an entry fails, its fallback view is made under the
\* entry's own table name, and the views of the other entries of the load are
\* left as they were.
C11_FallbackUnderOwnName ==
    Loaded =>
        \A i \in 1..Len(last.log) :
            last.log[i] = "error" =>
                /\ last.arg[i].tbl \in DOMAIN views
                /\ views[last.arg[i].tbl] = "fallback"
                /\ \A j \in 1..Len(last.log) :
                      (j # i /\ last.log[j] = "created") =>
                          /\ last.arg[j].tbl \in DOMAIN views
                          /\ views[last.arg[j].tbl] # "fallback"

----------------------------------------------------------------------------
(* More claims about rewriting.                                            *)

\* the URL resolves now, when nothing goes wrong
Resolves(url) == convert_url_to_local_path(ProxyState, Env(NoFault), url).ret.ok

\* C12 as stated: after a rewrite in which nothing went wrong, the output holds
\* no quoted literal, opened by any of the six markers, whose URL resolves.
C12_NoResolvableLiteralLeft ==
    (Rewritten /\ last.fault = NoFault) =>
        \A q \in Quotes, u \in LiteralUrls \cup {HttpsUrl(B1, A_CSV)} :
            Resolves(u) => FindSeq(last.out, Literal(q, u, TRUE)) = 0

----------------------------------------------------------------------------
(* Claims about the retry of a fetch.                                      *)

\* C13: a fetch sends at most two requests, all of them GETs for object bytes;
\* when it sends two, the first was for the key itself and was refused, and
\* the second is for another key and is the last.
C13_AtMostTwoGets ==
    last.op = "download_file" =>
        /\ Len(last.reqs) <= 2
        /\ \A i \in 1..Len(last.reqs) : last.reqs[i].kind = "GET"
        /\ Len(last.reqs) = 2 =>
              /\ last.reqs[1].key = last.arg
              /\ last.reqs[1].status = "fail"
              /\ last.reqs[2].key # last.arg

\* C13 witness: a fetch of csv/csv/a.csv was refused twice, for the key and for
\* the bare filename, and reported failure.
C13_Witness ==
    /\ Fetched /\ last.arg = CSV_CSV_A_CSV /\ ~last.ret.ok
    /\ Len(last.reqs) = 2
    /\ last.reqs[1].status = "fail"
    /\ last.reqs[2].key = A_CSV /\ last.reqs[2].status = "fail"

\* the key has a csv or parquet folder among its segments
HasFormatSegment(object_key) ==
    LET parts == Split(object_key, "/")
    IN \E i \in 1..(Len(parts) - 1) : parts[i] \in {<<"csv">>, <<"parquet">>}

\* the last segment of the key
BareFilename(object_key) ==
    LET parts == Split(object_key, "/") IN parts[Len(parts)]

\* C14 as stated: when the GET for the key fails (another status or no answer)
\* and the bare filename is not in the cache, a key with a format folder gets
\* exactly one further GET, for the bare filename, whose outcome is returned; a
\* key without one gets no further request and the fetch fails.
C14_FailedGetRetriesBareFilenameOnce ==
    [][(/\ FetchStep
        /\ Len(last'.reqs) >= 1
        /\ last'.reqs[1].status # "200"
        /\ ~is_cached(ProxyState, now,
                      cache_relative_path(last'.bucket, BareFilename(last'.arg)),
                      cache_full_path(last'.bucket, BareFilename(last'.arg))))
          => IF HasFormatSegment(last'.arg)
             THEN /\ Len(last'.reqs) = 2
                  /\ last'.reqs[2].kind = "GET"
                  /\ last'.reqs[2].key = BareFilename(last'.arg)
                  /\ last'.ret.ok => /\ last'.reqs[2].status = "200"
                                     /\ last'.ret.path =
                                          cache_full_path(last'.bucket, BareFilename(last'.arg))
             ELSE Len(last'.reqs) = 1 /\ ~last'.ret.ok]_vars

----------------------------------------------------------------------------
(* Claims about concurrent calls.                                          *)

\* the thread has sent the GET of its call
HasSent(t) == threads[t].pc \in {"open", "write", "record", "save", "flush", "return"} /\ threads[t].got # <<>>

\* the thread has the object's file open for writing
IsWriting(t) == threads[t].pc = "write"

\* C15 as stated: of two calls in progress for the same object only one sends a
\* GET, the file never has two writers, and a call never returns the path of a
\* file that another call has emptied and not yet written.
C15_ConcurrentMissesCoalesce ==
    \A t1, t2 \in Threads :
        (t1 # t2 /\ threads[t1].key = threads[t2].key) =>
            /\ ~(HasSent(t1) /\ HasSent(t2))
            /\ ~(IsWriting(t1) /\ IsWriting(t2))
            /\ ~(threads[t1].pc = "return" /\ IsWriting(t2))

\* C16 as stated: when no call is in progress, the persisted document holds
\* the index that is in memory, every entry and every last_access included.
C16_DocumentHoldsEveryEntry ==
    (\A t \in Threads : threads[t].pc = "idle") => metadata_file = cache_metadata

----------------------------------------------------------------------------
(* More claims about the cache.                                            *)

\* C17: in every step, the last_access of an entry that is in the index before
\* and after the step does not go down.
C17_LastAccessNeverDecreases ==
    [][\A rel \in DOMAIN cache_metadata \cap DOMAIN cache_metadata' :
          cache_metadata'[rel].last_access >= cache_metadata[rel].last_access]_vars

\* C17 witness: a cache hit has moved the last_access of an entry past the
\* time of its download.
C17_Witness ==
    /\ Fetched /\ last.reqs = <<>> /\ last.ret.ok
    /\ cache_relative_path(last.bucket, last.arg) \in DOMAIN cache_metadata
    /\ cache_metadata[cache_relative_path(last.bucket, last.arg)].last_access = now
    /\ now > 0

----------------------------------------------------------------------------
(* Claims about the listing calls.                                         *)

ListingCall == last.op \in {"list_objects", "list_buckets"}

\* C18 as stated: a listing call sends one GET and does not raise; on another
\* status than 200 or on no answer it returns the empty list.
C18_ListingNeverRaises ==
    ListingCall =>
        /\ ~last.exc
        /\ Len(last.reqs) = 1
        /\ last.arg.status # "200" => last.out = <<>>

\* C19: every descriptor list_objects returns has a name; for an array (bare
\* or under the field objects) there is one descriptor per entry, in order,
\* named by the entry's name, else by its key, else by the string it is; for
\* a mapping there is one descriptor per key, named by the key.
C19_EveryDescriptorHasName ==
    (last.op = "list_objects" /\ last.arg.status = "200") =>
        LET body == last.arg.body
            items == body.items
            is_array == body.type = "list" \/ body.keys = <<<<"objects">>>>
        IN /\ \A i \in 1..Len(last.out) : "name" \in last.out[i].fields
           /\ is_array =>
                /\ Len(last.out) = Len(items)
                /\ \A i \in 1..Len(items) :
                      last.out[i].name =
                          IF ~items[i].is_dict THEN items[i].str
                          ELSE IF "name" \in items[i].fields THEN items[i].name
                          ELSE items[i].key
           /\ (body.type = "dict" /\ \A i \in 1..Len(body.keys) : body.keys[i] \in EntryNames) =>
                /\ Len(last.out) = Len(body.keys)
                /\ \A i \in 1..Len(body.keys) : last.out[i].name = body.keys[i]

\* C19 witness: an entry with a key and no name came back named by its key,
\* after a string entry.
C19_Witness ==
    /\ last.op = "list_objects"
    /\ last.arg = [status |-> "200",
                   body |-> ListBody(<<StrEntry(B_CSV), DictEntry({"key"}, <<>>, A_CSV)>>)]
    /\ last.out[2].name = A_CSV /\ last.out[2].key = A_CSV
    /\ last.out[1].name = B_CSV

----------------------------------------------------------------------------
(* Claims about the three forms of a URL.                                  *)

ResolveStep == last'.op = "convert_url_to_local_path" /\ ~last'.exc

\* a bucket called buckets, and a key under it whose legacy URL reads as the
\* REST URL of b1/a.csv
BUCKETS == <<"buckets">>
B1_OBJECTS_A_CSV == B1 \o <<"/", "objects", "/">> \o A_CSV

\* the call of this step resolves a URL of one of the three forms of (bucket,
\* key) to that pair: it asks the store for nothing else, what it returns is
\* the cache path of the pair, and it returns it when the store has the object
ResolvesTo(bucket, key) ==
    /\ \A i \in 1..Len(last'.reqs) :
          last'.reqs[i].bucket = bucket /\ last'.reqs[i].key = key
    /\ last'.ret.ok => last'.ret.path = cache_full_path(bucket, key)
    /\ <<bucket, key>> \in DOMAIN remote => last'.ret.ok

\* C20 as stated: for every bucket and key, each of the three forms resolves
\* to that bucket and key and their cache path, and once the object has been
\* downloaded a later resolution of any form sends no request.
C20_ThreeFormsOneCopy ==
    [][\A ref \in {<<B1, A_CSV>>, <<BUCKETS, B1_OBJECTS_A_CSV>>} :
         (ResolveStep /\ last'.arg \in UrlsOf(ref[1], ref[2])) =>
             /\ ResolvesTo(ref[1], ref[2])
             /\ cache_relative_path(ref[1], ref[2]) \in DOMAIN downloaded
                    => last'.reqs = <<>>]_vars

\* C20 amended: the same for every bucket and key whose legacy URL does not
\* read as a REST URL, the later resolution sending no request when the file
\* of the object is still on disk.
C20_ThreeFormsOneCopyWhileFileStays ==
    [][(ResolveStep /\ last'.arg \in UrlsOf(B1, A_CSV)) =>
           /\ ResolvesTo(B1, A_CSV)
           /\ (/\ cache_relative_path(B1, A_CSV) \in DOMAIN downloaded
               /\ cache_full_path(B1, A_CSV) \in DOMAIN disk)
                  => (last'.reqs = <<>> /\ last'.ret = Path(cache_full_path(B1, A_CSV)))]_vars

\* C20 witness: the s3 form of b1/a.csv was answered from the cache, with the
\* path of b1/a.csv and no request.
C20_Witness ==
    /\ last.op = "convert_url_to_local_path"
    /\ last.arg = S3Url(B1, A_CSV)
    /\ last.reqs = <<>>
    /\ last.ret = Path(cache_full_path(B1, A_CSV))

----------------------------------------------------------------------------
(* Claims about what a fetch leaves in the index.                          *)

\* the index after the step has an entry for (bucket, key), written now, and
\* the document holds the index
HasEntryNow(bucket, key) ==
    /\ cache_relative_path(bucket, key) \in DOMAIN cache_metadata'
    /\ cache_metadata'[cache_relative_path(bucket, key)].last_access = now
    /\ cache_metadata'[cache_relative_path(bucket, key)].source_url = <<bucket, key>>
    /\ metadata_file' = cache_metadata'

\* C21 as stated: a fetch of (bucket, key) that returns a path returns the
\* cache path of that pair and leaves an index entry at the relative path of
\* that pair, with last_access at the time of the fetch.
C21_FetchLeavesOwnEntry ==
    [][(FetchStep /\ last'.ret.ok) =>
          /\ last'.ret.path = FetchFull
          /\ HasEntryNow(last'.bucket, last'.arg)]_vars

\* C21 amended: a fetch that returns a path returns the cache path of the
\* object it was answered with, which is the key itself or, after a refused
\* GET of a key with a leading format folder, the bare filename; the index has
\* an entry at the relative path of that object with last_access at the time
\* of the fetch.
C21_FetchLeavesEntryOfObjectServed ==
    [][(FetchStep /\ last'.ret.ok) =>
          \E got \in {last'.arg} \cup
                     (IF has_format_folder(last'.arg) /\ Len(last'.reqs) >= 1
                      THEN {alt_key(last'.arg)} ELSE {}) :
              /\ last'.ret.path = cache_full_path(last'.bucket, got)
              /\ HasEntryNow(last'.bucket, got)]_vars

\* C21 witness: a fetch of csv/a.csv was served with a.csv by the retry and
\* left the entry of b1/a.csv, and none of b1/csv/a.csv.
C21_Witness ==
    /\ Fetched /\ last.ret.ok /\ last.arg = CSV_A_CSV /\ Len(last.reqs) = 2
    /\ last.ret.path = cache_full_path(B1, A_CSV)
    /\ cache_relative_path(B1, A_CSV) \in DOMAIN cache_metadata
    /\ cache_metadata[cache_relative_path(B1, A_CSV)].last_access = now
    /\ cache_relative_path(B1, CSV_A_CSV) \notin DOMAIN cache_metadata

----------------------------------------------------------------------------
(* More claims about the catalog.                                          *)

\* the entries of the load up to the i-th are all Dummy entries
DummiesUpTo(i) == \A j \in 1..i : last.arg[j].meta.type = "dummy"

\* C22 as stated: a Dummy entry always materializes: when the entries before
\* it are Dummy entries too, its view is created under its name, and a load of
\* Dummy entries alone sends no request.
C22_DummyAlwaysMaterializes ==
    Loaded =>
        /\ \A i \in 1..Len(last.arg) :
              DummiesUpTo(i) =>
                  /\ Len(last.log) >= i /\ last.log[i] = "created"
                  /\ last.arg[i].tbl \in DOMAIN views
                  /\ views[last.arg[i].tbl] = "dummy"
        /\ DummiesUpTo(Len(last.arg)) => (~last.exc /\ last.reqs = <<>>)

\* C23: a load of a catalog file that is not there, or of an empty document,
\* does not raise, sends nothing, and leaves the views of the connection, the
\* index, its document and the cache files as they were.
C23_EmptyCatalogChangesNothing ==
    [][(last'.op = "load_catalog" /\ (~last'.found \/ last'.arg = <<>>)) =>
          /\ ~last'.exc
          /\ last'.log = <<>> /\ last'.reqs = <<>>
          /\ UNCHANGED <<views, cache_metadata, metadata_file, disk, dirs, downloaded>>]_vars

\* C23 witness: a missing catalog file was loaded into a connection that had
\* views, over a cache that had a file, and both are still there.
C23_Witness ==
    /\ Loaded /\ ~last.found /\ ~last.exc
    /\ views # << >>
    /\ disk # << >>

----------------------------------------------------------------------------
(* Claims about the manager's connection.                                  *)

\* C24: close() clears the handle and closes the connection without raising;
\* from then on every statement, run through the manager or through a
\* reference to the connection, raises and changes no view; and a close()
\* with the handle cleared changes nothing and does not raise.
C24_ClosedConnectionRunsNothing ==
    [][/\ last'.op = "close" =>
            /\ ~last'.exc
            /\ ~connection'.handle /\ connection'.closed
            /\ ~connection.handle => UNCHANGED <<proxy_instance, instances, connection, views>>
       /\ (last'.op \in {"execute_query", "connection_sql"} /\ ~connection.handle) =>
            (last'.exc /\ UNCHANGED <<proxy_instance, instances, connection, views>>)]_vars

\* C24 witness: a connection that had made a view was closed, closed again,
\* and then refused a statement.
C24_Witness ==
    /\ last.op = "connection_sql" /\ last.exc /\ last.arg = SelectOne
    /\ connection = [handle |-> FALSE, closed |-> TRUE]
    /\ views # << >>

----------------------------------------------------------------------------
(* More claims about wildcard resolution.                                  *)

\* C25 as stated: the name selected for a pattern that contains *.<ext> ends,
\* in lowercase, with .<ext>, and starts with the pattern's prefix when it has
\* one.
C25_ExtensionIsRequired ==
    (Resolved /\ last.sel # <<>>) =>
        \A pattern \in Patterns :
            (last.arg \in UrlsOf(B1, pattern) /\ PatternExtension(pattern) # <<>>) =>
                /\ EndsWith(Lower(last.sel), <<".">> \o PatternExtension(pattern))
                /\ PatternPrefix(pattern) # <<>> => StartsWith(last.sel, PatternPrefix(pattern))

\* the prefix the call of the latest step matched with: that of lines 283 and
\* 357-369, on the key of the URL it was given
PrefixUsed ==
    LET parsed_url == urlparse(last.arg)
    IN IF parsed_url.scheme = "s3://"
       THEN s3_pattern(Strip(parsed_url.path, "/")).prefix
       ELSE http_pattern(http_bucket_key(parsed_url.path).key).prefix

\* C26 as stated: for a wildcard key, in every URL form, the prefix matched
\* with is the text of the key before its first *, and holds no *.
C26_PrefixIsTextBeforeFirstStar ==
    Resolved =>
        \A pattern \in SamplePatterns :
            last.arg \in UrlsOf(B1, pattern) =>
                /\ PrefixUsed = PatternPrefix(pattern)
                /\ ~Contains(PrefixUsed, "*")

----------------------------------------------------------------------------
(* More claims about the listing calls.                                    *)

\* the name a descriptor gets: the entry's name, else its key, else the string
NameOfEntry(entry) ==
    IF ~entry.is_dict THEN entry.str
    ELSE IF "name" \in entry.fields THEN entry.name
    ELSE entry.key

\* C27 as stated: for an answer that wraps the array under the field objects
\* or the field contents, list_objects returns one descriptor per entry of the
\* array, in order, and no descriptor is named by the field.
C27_WrapperIsUnwrapped ==
    (/\ last.op = "list_objects" /\ last.arg.status = "200"
     /\ last.arg.body.type = "dict"
     /\ last.arg.body.keys \in {<<<<"objects">>>>, <<<<"contents">>>>}) =>
        /\ Len(last.out) = Len(last.arg.body.items)
        /\ \A i \in 1..Len(last.out) :
              /\ i <= Len(last.arg.body.items)
                    => last.out[i].name = NameOfEntry(last.arg.body.items[i])
              /\ last.out[i].name # last.arg.body.keys[1]

----------------------------------------------------------------------------
(* Claims about an empty listing.                                          *)

\* the call of this step asked for the listing of a bucket first and got none:
\* the request failed, or the bucket lists nothing
ListingCameBackEmpty ==
    /\ Len(last'.reqs) >= 1
    /\ last'.reqs[1].kind = "LIST"
    /\ (last'.reqs[1].status # "200" \/ listing[last'.reqs[1].bucket] = <<>>)

\* the index, its document and the cache files are what the sweep at the start
\* of a load leaves (the sweep removes nothing that has not expired)
CacheAsSwept ==
    LET s == initialize_proxy(ProxyState, Env(NoFault))
    IN /\ cache_metadata' = s.meta /\ metadata_file' = s.file
       /\ disk' = s.disk /\ downloaded' = s.dl

\* C28: when the listing comes back empty, the resolution of a wildcard URL
\* sends nothing after the listing request, changes nothing in the cache and
\* returns no path; the load of raw tables sends one listing request per table
\* and no GET, changes nothing in the cache, and gives every table its
\* fallback view.
C28_EmptyListingTriesNothingFurther ==
    [][ListingCameBackEmpty =>
          /\ ~last'.exc
          /\ \A i \in 1..Len(last'.reqs) : last'.reqs[i].kind = "LIST"
          /\ last'.op = "convert_url_to_local_path" =>
                /\ Len(last'.reqs) = 1
                /\ ~last'.ret.ok
                /\ UNCHANGED <<cache_metadata, metadata_file, disk, dirs, downloaded, views>>
          /\ last'.op = "load_catalog" =>
                /\ Len(last'.reqs) = Len(last'.arg)
                /\ CacheAsSwept
                /\ \A i \in 1..Len(last'.arg) :
                      /\ last'.log[i] = "error"
                      /\ views'[last'.arg[i].tbl] = "fallback"]_vars

\* C28 witness: two raw tables were loaded over a cache that holds a file when
\* the listing failed: two listing requests, two fallback views, the file kept.
C28_Witness ==
    /\ Loaded /\ Len(last.arg) = 2 /\ Len(last.reqs) = 2
    /\ last.reqs[1].status = "error"
    /\ views[T1] = "fallback" /\ views[T_2] = "fallback"
    /\ disk # << >>

----------------------------------------------------------------------------
(* Claims about the sliding of the TTL window.                             *)

\* the call of this step was answered from the cache
HitStep == FetchStep /\ last'.reqs = <<>> /\ last'.ret.ok

\* the index has an entry for the object of this step that is younger than the TTL
FreshEntry ==
    /\ FetchRel \in DOMAIN cache_metadata
    /\ now - cache_metadata[FetchRel].last_access < cache_expiration

\* C29 as stated: a hit sets the entry's last_access to the time of the hit,
\* and a fetch of an object whose entry is younger than the TTL is a hit: it
\* sends nothing and downloads nothing.
C29_HitSlidesTheWindow ==
    [][/\ HitStep => cache_metadata'[FetchRel].last_access = now
       /\ (FetchStep /\ FreshEntry) =>
             /\ last'.reqs = <<>> /\ last'.ret = Path(FetchFull)
             /\ downloaded' = downloaded]_vars

\* C29 amended: the same while the cached file is still on disk; and between
\* two fetches the entry of an object that was answered under its own path
\* stays in the index, with a last_access not older than that answer, for as
\* long as the answer is not older than the TTL.
C29_HitSlidesTheWindowWhileFileStays ==
    [][/\ HitStep => /\ cache_metadata'[FetchRel].last_access = now
                     /\ metadata_file' = cache_metadata'
       /\ (FetchStep /\ FreshEntry /\ FetchFull \in DOMAIN disk) =>
             /\ last'.reqs = <<>> /\ last'.ret = Path(FetchFull)
             /\ downloaded' = downloaded
       /\ \A ref \in DOMAIN lastOk :
             (/\ lastOk[ref].path = cache_full_path(ref[1], ref[2])
              /\ now - lastOk[ref].time <= cache_expiration) =>
                 /\ cache_relative_path(ref[1], ref[2]) \in DOMAIN cache_metadata
                 /\ cache_metadata[cache_relative_path(ref[1], ref[2])].last_access
                        >= lastOk[ref].time]_vars

\* C29 witness: at the last clock value, later than a TTL after the start, a
\* fetch of a.csv is a hit on an entry that the hit before it had touched.
C29_Witness ==
    /\ Fetched /\ last.reqs = <<>> /\ last.ret.ok /\ last.arg = A_CSV
    /\ last.pre.entry /\ last.pre.file
    /\ now = MaxTime /\ MaxTime > cache_expiration
    /\ cache_metadata[cache_relative_path(B1, A_CSV)].last_access = now
    /\ disk[cache_full_path(B1, A_CSV)] = <<1>> /\ remote[<<B1, A_CSV>>] = <<2>>

----------------------------------------------------------------------------
(* Claims about a sweep that cannot delete a file.                         *)

\* the expired entries whose file the sweep of this step cannot delete
StuckEntries ==
    {p \in Expired : OsPathJoin(CACHE_DIR, p) \in DOMAIN disk \cap last'.stuck}

\* C30: in a sweep that fails to delete the file of an expired entry, every
\* other expired entry is removed from the index and its file from the disk,
\* and when the index has changed the document holds the new index.
C30_SweepGoesOnAfterFailure ==
    [][(SweepStep /\ StuckEntries # {}) =>
          /\ \A p \in Expired \ StuckEntries :
                /\ p \notin DOMAIN cache_metadata'
                /\ OsPathJoin(CACHE_DIR, p) \notin DOMAIN disk'
          /\ cache_metadata' # cache_metadata => metadata_file' = cache_metadata']_vars

\* C30 witness: a sweep of two expired entries could not delete the file of
\* b1/a.csv; it removed b1/csv/a.csv and its file, and saved the index.
C30_Witness ==
    /\ last.op = "clean_expired_cache" /\ last.removed = 1
    /\ last.stuck = {cache_full_path(B1, A_CSV)}
    /\ DOMAIN cache_metadata = {cache_relative_path(B1, A_CSV)}
    /\ now - cache_metadata[cache_relative_path(B1, A_CSV)].last_access > cache_expiration
    /\ DOMAIN disk = {cache_full_path(B1, A_CSV)}
    /\ metadata_file = cache_metadata

----------------------------------------------------------------------------
(* Claims about the document and a proxy constructed over it.              *)

\* the step is a call that has changed or touched the index: a fetch that
\* returned a path (a download or a hit) or a sweep that removed something
MutatingCall ==
    \/ last'.op = "download_file" /\ last'.ret.ok
    \/ last'.op = "clean_expired_cache" /\ last'.removed > 0

\* C31 as stated: after every completed download, hit or sweep the document
\* equals the index, and a proxy constructed over the cache folder starts with
\* the index the proxy before it had.
C31_DocumentIsIndexAfterEveryCall ==
    [][/\ MutatingCall => metadata_file' = cache_metadata'
       /\ last'.op = "construct" => cache_metadata' = cache_metadata]_vars

\* C31 amended: after a download, hit or sweep whose save did not fail the
\* document equals the index; a save that fails on open() leaves the document
\* as it was; and a proxy constructed over the cache folder starts with the
\* index that the document holds, the document staying as it is.
C31_DocumentIsIndexAfterEverySave ==
    [][/\ (MutatingCall /\ last'.fault = NoFault) => metadata_file' = cache_metadata'
       /\ (MutatingCall /\ last'.fault.kind = "save_open") => metadata_file' = metadata_file
       /\ last'.op = "construct" =>
              (cache_metadata' = metadata_file /\ metadata_file' = metadata_file)]_vars

\* C31 witness: a proxy was constructed over a document that holds an entry
\* and the file of that entry, and starts with the index the document holds.
C31_Witness ==
    /\ last.op = "construct"
    /\ cache_relative_path(B1, A_CSV) \in DOMAIN cache_metadata
    /\ cache_full_path(B1, A_CSV) \in DOMAIN disk
    /\ metadata_file = cache_metadata

----------------------------------------------------------------------------
(* Claims about raw tables.                                                *)

\* the latest step is a load of a catalog of one raw table whose listing
\* request was answered
RawTableLoaded ==
    /\ last.op = "load_catalog" /\ Len(last.arg) = 1
    /\ ~last.arg[1].meta.has_query /\ last.arg[1].meta.type # "dummy"
    /\ Listed

\* the listed names a raw table asks for, by the matching of the wildcard
\* resolver: the name in lower case ends with .format, and the name starts
\* with the prefix when there is one
RawTableMatches(meta) ==
    SelectSeq(listing[meta.bucket], LAMBDA name :
        /\ EndsWith(Lower(name), <<".", LowerAtom(meta.format)>>)
        /\ (meta.prefix = <<>> \/ StartsWith(name, meta.prefix)))

\* C32 as stated: a raw table whose listing has a match fetches the earliest
\* match and no other object, and its view is made over that object's file.
C32_RawTableTakesEarliestMatch ==
    RawTableLoaded =>
        LET meta == last.arg[1].meta
            m == RawTableMatches(meta)
        IN m # <<>> =>
              /\ \A i \in 1..Len(last.reqs) :
                    last.reqs[i].kind = "GET" => last.reqs[i].key = m[1]
              /\ cache_full_path(meta.bucket, m[1]) \in DOMAIN disk
              /\ last.log = <<"created">>

----------------------------------------------------------------------------
(* Claims about reloading the catalog.                                     *)

\* the tables of the catalog document of the latest load
TablesLoaded == {last.arg[i].tbl : i \in 1..Len(last.arg)}

\* C33 as stated: after a load of the catalog that has returned, the views of
\* the connection are those of the entries of the document that was loaded,
\* and no others (checked on the loads in which every entry got its view).
C33_ReloadReplacesWholesale ==
    (/\ last.op = "load_catalog" /\ ~last.exc /\ last.found /\ last.arg # <<>>
     /\ \A i \in 1..Len(last.log) : last.log[i] = "created")
        => DOMAIN views = TablesLoaded

----------------------------------------------------------------------------
(* Claims about the quotes of a substituted literal.                       *)

RECURSIVE LiteralEnd(_, _, _)
\* how the engine reads a quoted literal whose text starts at text[i]: a quote
\* followed by a quote is a quote of the text, another quote closes the
\* literal; the position of the closing quote, 0 when there is none
LiteralEnd(text, quote, i) ==
    IF i > Len(text) THEN 0
    ELSE IF text[i] # quote THEN LiteralEnd(text, quote, i + 1)
    ELSE IF i < Len(text) /\ text[i + 1] = quote THEN LiteralEnd(text, quote, i + 2)
    ELSE i

\* the text of a literal as the engine reads it: doubled quotes are single
Unescaped(text, quote) == Join(SplitSeq(text, <<quote, quote>>), <<quote>>)

\* the latest step rewrote a query of one literal and substituted it
SubstitutedOne ==
    last.op = "update_catalog_query" /\ last.arg \in QueriesOfOne /\ last.n = 1

\* C34 as stated: a substituted literal in single quotes holds the local path
\* with every single quote doubled, one in double quotes holds the path as it
\* is, and read by the engine the literal ends at its own closing quote: its
\* text is the path, and the rest of the query follows it.
C34_SubstitutedLiteralKeepsItsQuotes ==
    SubstitutedOne =>
        LET quote == last.arg[Len(Select) + 1]
            first == Len(Select) + 2
            end == LiteralEnd(last.out, quote, first)
        IN \E local_path \in DOMAIN disk :
              /\ quote = SQ =>
                    last.out = Select \o <<SQ>> \o ReplaceAtom(local_path, SQ, <<SQ, SQ>>)
                                      \o <<SQ>> \o Where
              /\ quote = DQ => last.out = Select \o <<DQ>> \o local_path \o <<DQ>> \o Where
              /\ end # 0
              /\ Unescaped(SubSeq(last.out, first, end - 1), quote) = local_path
              /\ SubSeq(last.out, end + 1, Len(last.out)) = Where

----------------------------------------------------------------------------
(* Claims about a fetch that fails.                                        *)

\* C35: a call of download_file that returns no path leaves the index and the
\* document as they were.
C35_FailedFetchLeavesIndexAlone ==
    [][(last'.op = "download_file" /\ ~last'.ret.ok) =>
          /\ cache_metadata' = cache_metadata
          /\ metadata_file' = metadata_file]_vars

\* C35 witness: a fetch returned no path after its GET was refused and the
\* GET of the retry met a transport error, for a bare filename that has an
\* entry in the index (and no file any more).
C35_Witness ==
    /\ Fetched /\ ~last.ret.ok
    /\ Len(last.reqs) = 2 /\ last.reqs[1].status = "fail" /\ last.reqs[2].status = "error"
    /\ cache_relative_path(last.bucket, alt_key(last.arg)) \in DOMAIN cache_metadata

----------------------------------------------------------------------------
(* Claims about the forms of a wildcard URL.                               *)

\* C36 as stated: what a wildcard URL has selected from the listing is what
\* every other form of the same bucket and key selects from it, a name or none.
C36_FormsSelectTheSame ==
    (Resolved /\ Listed) =>
        \A pattern \in Patterns :
            last.arg \in UrlsOf(B1, pattern) =>
                \A url \in UrlsOf(B1, pattern) :
                    convert_url_to_local_path(ProxyState, Env(NoFault), url).sel = last.sel

----------------------------------------------------------------------------
(* Claims about rewriting a rewritten query.                               *)

\* the latest call rewrote one of the queries with quoted URLs and
\* substituted every literal of it
RewroteEveryLiteral ==
    /\ last.op = "update_catalog_query" /\ ~last.exc
    /\ \/ last.arg \in QueriesOfOne /\ last.n = 1
       \/ last.arg \in QueriesOfTwo /\ last.n = 2

\* the step is update_catalog_query called on the query that the call before
\* it returned
RewrittenAgain == last'.op = "update_catalog_query" /\ last'.arg = last.out

\* the text holds none of the markers of line 450
HasNoMarker(text) == \A m \in 1..Len(url_markers) : FindSeq(text, url_markers[m]) = 0

\* C37 as stated: update_catalog_query on a query of which it has substituted
\* every literal returns that query as it is, and sends no request.
C37_RewriteIsIdempotent ==
    [][(RewroteEveryLiteral /\ RewrittenAgain) =>
          (last'.out = last'.arg /\ last'.reqs = <<>>)]_vars

\* C37 amended: the same, when no local path that was put into the query
\* holds a quote followed by http:// or s3://.
C37_RewriteIsIdempotentWithoutMarkers ==
    [][(RewroteEveryLiteral /\ RewrittenAgain /\ HasNoMarker(last.out)) =>
          (last'.out = last'.arg /\ last'.reqs = <<>> /\ last'.n = 0)]_vars

\* C37 witness: the rewritten query of a single-quoted wildcard literal, with
\* the quote of the local path doubled, was rewritten again: it came back as
\* it was and nothing was requested.
C37_Witness ==
    /\ last.op = "update_catalog_query"
    /\ last.arg = Select \o <<SQ>>
                     \o ReplaceAtom(cache_full_path(B1, A_QUOTE_B_CSV), SQ, <<SQ, SQ>>)
                     \o <<SQ>> \o Where
    /\ last.out = last.arg
    /\ last.reqs = <<>>

----------------------------------------------------------------------------
(* Claims about where the downloader writes.                               *)

RECURSIVE Climb(_, _)
\* the segments of a path with . and empty segments left out and each ..
\* taking back the segment before it (a .. with nothing before it stays)
Climb(segments, acc) ==
    IF segments = <<>> THEN acc
    ELSE IF Head(segments) \in {<<>>, <<".">>} THEN Climb(Tail(segments), acc)
    ELSE IF Head(segments) = <<"..">> /\ acc # <<>> /\ acc[Len(acc)] # <<"..">>
         THEN Climb(Tail(segments), SubSeq(acc, 1, Len(acc) - 1))
    ELSE Climb(Tail(segments), Append(acc, Head(segments)))

\* the file that the file system opens for a path: whether the path starts at
\* the root, and the segments that lead to the file
FileOf(path) ==
    [rooted |-> path # <<>> /\ path[1] = "/", segments |-> Climb(Split(path, "/"), <<>>)]

\* the file is inside the folder of the bucket in the cache directory
UnderBucketFolder(file, bucket) ==
    /\ ~file.rooted
    /\ Len(file.segments) >= 3
    /\ file.segments[1] = CACHE_DIR /\ file.segments[2] = bucket

\* C38 as stated: every file written is inside the cache directory, in the
\* folder of its bucket, and none of them is the index document.
C38_WritesStayInBucketFolder ==
    \A path \in DOMAIN disk :
        /\ UnderBucketFolder(FileOf(path), B1)
        /\ FileOf(path) # FileOf(cache_metadata_path)

----------------------------------------------------------------------------
(* Claims about the shared proxy.                                          *)

\* the threads that were returned a proxy
Holders == {t \in Threads : threads[t].proxy # << >>}

\* C39: under any interleaving of first calls of get_proxy_instance one proxy is
\* constructed (so the document is loaded once) and every caller is returned
\* that same proxy.
C39_OneSharedProxy ==
    /\ Len(instances) <= 1
    /\ \A t, u \in Holders : threads[t].proxy = threads[u].proxy
    /\ Holders # {} => Len(instances) = 1

====
